---- MODULE Spec2Model ----
(***************************************************************************)
(* A model of the mizl debugger core (Linux host debugger, breakpoint      *)
(* container, SIGCHLD registration, command proxying, event loop) and of   *)
(* the MemView typed accessors.                                            *)
(*                                                                         *)
(* One traced thread is modelled: DebuggerLinux::run inserts exactly one   *)
(* entry into state.threads and nothing else ever inserts another.         *)
(* Process memory is served by /proc/PID/mem (proc_mem is Some).           *)
(* The tracee runs one-byte instructions; the trap opcode 0xCC raises      *)
(* SIGTRAP with si_code SI_KERNEL and leaves RIP one byte past the trap.   *)
(***************************************************************************)
EXTENDS Integers, Sequences, FiniteSets, TLC

VARIABLES
    state,        \* DebuggerLinuxState (behind the state mutex)
    tracee,       \* the traced child as the kernel sees it, incl. its memory
    returned,     \* kind of the event wait_next_event returned in this step
    pc_read,      \* result of the register read done in this step
    mem_read,     \* result of the overlay read done in this step
    step_watch,   \* follows one step issued at a breakpoint
    stepover_bp   \* address whose trap byte a step has temporarily removed

dbgVars == <<state, tracee, returned, pc_read, mem_read, step_watch, stepover_bp>>


----------------------------------------------------------------------------
(* Bounds and constants *)

MemSize == 2        \* modelled code bytes of the tracee: addresses 0..MemSize-1
MaxBps == 2         \* add_breakpoint calls in one run
MaxUserWrites == 1  \* write_bytes calls in one run

TrapByte == 204     \* 0xcc

Addr == 0 .. (MemSize - 1)
Threads == {"dbg", "cmd"}   \* the debug thread and a command thread
UserBytes == {32}

\* the program's own bytes: distinct, none of them the trap opcode
ProgByte(a) == 16 + a

\* Option<T>
None == <<>>
Some(x) == <<x>>

Min(a, b) == IF a < b THEN a ELSE b

----------------------------------------------------------------------------
(* DebuggerLinuxPauseState *)

PauseStates ==
    {"FirstStop", "Running", "StoppedUnknownReason", "StepCompleted",
     "SwBreakpointHit", "SyscallHitEnd",
     "SteppingBp", "SteppingBpContOne", "SteppingBpContAll"}

is_stopped(ps) ==
    ps \notin {"Running", "SteppingBp", "SteppingBpContOne", "SteppingBpContAll"}

convert_si_code(si_code) ==
    CASE si_code = "SI_KERNEL"  -> [pause |-> "SwBreakpointHit", kind |-> "BreakpointHit"]
      [] si_code = "TRAP_BRKPT" -> [pause |-> "SyscallHitEnd", kind |-> "StepCompleteSyscall"]
      [] si_code = "TRAP_TRACE" -> [pause |-> "StepCompleted", kind |-> "StepComplete"]
      [] OTHER -> [pause |-> "StoppedUnknownReason", kind |-> "MiscSignalReceived"]

----------------------------------------------------------------------------
(* The kernel side: ptrace requests and /proc/PID/mem *)

\* PTRACE_SINGLESTEP: fails with ESRCH (ignored) unless the tracee is in a
\* ptrace-stop; resuming drops a stop that waitpid has not reported yet
singlestep(k) ==
    IF k.run = "stopped"
    THEN [k EXCEPT !.run = "stepping", !.wait_status = None]
    ELSE k

cont(k) ==
    IF k.run = "stopped"
    THEN [k EXCEPT !.run = "running", !.wait_status = None]
    ELSE k

\* PTRACE_GETREGS: the buffer stays zeroed when the request fails
getregs(k) == IF k.run = "stopped" THEN k.rip ELSE 0

\* DebuggerLinuxMemView::write_bytes through /proc/PID/mem, by thread t
proc_mem_write(k, t, addr, value) ==
    [k EXCEPT !.mem = [x \in Addr |->
                          IF x >= addr /\ x < addr + Len(value)
                          THEN value[x - addr + 1] ELSE @[x]],
              !.writers = @ \cup {t}]

proc_mem_read(k, addr, count) == [i \in 1 .. count |-> k.mem[addr + i - 1]]

----------------------------------------------------------------------------
(* BreakpointContainer *)

BreakpointEntry(addr, bp_bytes, orig_bytes) ==
    [addr |-> addr, bp_bytes |-> bp_bytes, orig_bytes |-> orig_bytes]

\* slice::binary_search_by on a sorted key sequence; indices are 0-based.
\* With several equal keys any of the matches may be returned.
binary_search_by(keys, target) ==
    IF \E i \in 1 .. Len(keys) : keys[i] = target
    THEN {[found |-> TRUE, idx |-> i - 1] : i \in {j \in 1 .. Len(keys) : keys[j] = target}}
    ELSE {[found |-> FALSE,
           idx |-> Cardinality({j \in 1 .. Len(keys) : keys[j] < target})]}

BpAddrs(bps) == [i \in 1 .. Len(bps) |-> bps[i].addr]
BpEnds(bps) == [i \in 1 .. Len(bps) |-> bps[i].addr + Len(bps[i].bp_bytes)]

\* BreakpointContainer::add_breakpoint: the possible (bps_sorted, bp_id) after it
bp_cont_add_breakpoint(bps, bp_id, entry) ==
    {[bps_sorted |-> SubSeq(bps, 1, r.idx) \o <<entry>> \o SubSeq(bps, r.idx + 1, Len(bps)),
      bp_id |-> bp_id + 1] : r \in binary_search_by(BpAddrs(bps), entry.addr)}

\* the end index is searched in bps_sorted[start_idx..] and used as it comes
FindEndIdx(bps, start_idx, end) ==
    {IF r.found THEN r.idx + 1 ELSE r.idx :
        r \in binary_search_by(BpEnds(SubSeq(bps, start_idx + 1, Len(bps))), end)}

find_bps_in_range(bps, start, end) ==
    UNION {{IF start_idx < end_idx THEN <<start_idx, end_idx>> ELSE <<0, 0>> :
               end_idx \in FindEndIdx(bps, start_idx, end)} :
           start_idx \in {r.idx : r \in binary_search_by(BpAddrs(bps), start)}}

\* the body of the loop of fixup_bp_memory for one breakpoint
FixupOne(data, data_addr, bp) ==
    LET mem_len == Len(data)
        bp_mem_len == Len(bp.bp_bytes)
        bp_mem_start == bp.addr - data_addr
        src_start == IF bp_mem_start < 0 THEN 0 - bp_mem_start ELSE 0
        dst_start == IF bp_mem_start < 0 THEN 0 ELSE bp_mem_start
        count == Min(bp_mem_len - src_start, mem_len - dst_start)
    IN [i \in 1 .. mem_len |->
           IF i - 1 >= dst_start /\ i - 1 < dst_start + count
           THEN bp.orig_bytes[src_start + (i - 1 - dst_start) + 1]
           ELSE data[i]]

RECURSIVE FixupLoop(_, _, _, _, _)
FixupLoop(bps, data, data_addr, i, end_idx) ==
    IF i >= end_idx THEN data
    ELSE FixupLoop(bps, FixupOne(data, data_addr, bps[i + 1]), data_addr, i + 1, end_idx)

\* fixup_bp_memory: the possible contents of the destination buffer after it
fixup_bp_memory(bps, data, data_addr) ==
    {FixupLoop(bps, data, data_addr, rng[1], rng[2]) :
        rng \in find_bps_in_range(bps, data_addr, data_addr + Len(data))}

\* BreakpointContainer::get_breakpoint: the entry at address pc, if any
get_breakpoint(bps, pc) ==
    IF \E i \in 1 .. Len(bps) : bps[i].addr = pc
    THEN Some(bps[CHOOSE i \in 1 .. Len(bps) :
                     /\ bps[i].addr = pc
                     /\ \A j \in 1 .. Len(bps) : bps[j].addr = pc => i <= j])
    ELSE None

\* BreakpointWrapMemView::read_bytes
overlay_read_bytes(k, bps, addr, count) ==
    fixup_bp_memory(bps, proc_mem_read(k, addr, count), addr)

----------------------------------------------------------------------------
(* DebuggerLinux: the operations that run on the debug thread.             *)
(* w = [s |-> DebuggerLinuxState, k |-> tracee]; each returns the new w.   *)

\* rip points one byte ahead on x86 after hitting a breakpoint
reg_val_arch_adjust(pause_state, src_rip) ==
    IF pause_state = "SwBreakpointHit" THEN src_rip - 1 ELSE src_rip

load_reg_cache(w) ==
    [w EXCEPT !.s.reg_mem = Some(reg_val_arch_adjust(w.s.pause_state, getregs(w.k))),
              !.s.reg_mem_dirty = FALSE]

\* read_register_by_idx_buf_dbg followed by read_register_final, for RIP
RegCacheFresh(w) == IF w.s.reg_mem_dirty THEN load_reg_cache(w) ELSE w

read_register_pc(w) == RegCacheFresh(w).s.reg_mem[1]

SteppingStateOf(step_kind) ==
    CASE step_kind = "Step" -> "SteppingBp"
      [] step_kind = "StepBpContOne" -> "SteppingBpContOne"
      [] step_kind = "StepBpContAll" -> "SteppingBpContAll"

step_impl(w, step_kind) ==
    LET at_bp == w.s.pause_state = "SwBreakpointHit"
        w1 == IF at_bp THEN RegCacheFresh(w) ELSE w
        bp_opt == IF at_bp THEN get_breakpoint(w1.s.bps_sorted, read_register_pc(w))
                  ELSE None
        w2 == IF bp_opt # None
              THEN [w1 EXCEPT
                      !.k = proc_mem_write(w1.k, "dbg", bp_opt[1].addr, bp_opt[1].orig_bytes),
                      !.s.pause_state = SteppingStateOf(step_kind),
                      !.s.reg_mem_dirty = TRUE,
                      !.s.stepping_thread_pid = Some("pid"),
                      !.s.stepping_thread_bp = Some(bp_opt[1])]
              ELSE [w1 EXCEPT
                      !.s.reg_mem_dirty = TRUE,
                      !.s.stepping_thread_pid = Some("pid"),
                      !.s.pause_state = "Running"]
    IN [w2 EXCEPT !.k = singlestep(w2.k)]

\* the caller has checked that stepping_thread_bp is Some
step_replace_bp_impl(w) ==
    LET bp == w.s.stepping_thread_bp[1]
    IN [w EXCEPT !.k = proc_mem_write(w.k, "dbg", bp.addr, bp.bp_bytes)]

cont_one_impl(w) ==
    IF w.s.pause_state = "SwBreakpointHit"
    THEN step_impl(w, "StepBpContOne")
    ELSE [w EXCEPT !.s.reg_mem_dirty = TRUE, !.k = cont(w.k)]

cont_impl(w) ==
    LET w1 == [w EXCEPT !.s.reg_mem_dirty = TRUE]
    IN IF w1.s.pause_state = "SwBreakpointHit"
       THEN step_impl(w1, "StepBpContAll")
       ELSE [w1 EXCEPT !.k = cont(w1.k)]

\* handle_child_event: [w |-> the new w, ev |-> Option<DebuggerEventKind>]
handle_child_event(w) ==
    IF w.k.wait_status = None
    THEN [w |-> w, ev |-> None]                       \* waitpid: pid <= 0
    ELSE IF w.k.wait_status = Some("exited")
    THEN [w |-> [w EXCEPT !.k.wait_status = None], ev |-> Some("UnknownEvent")]
    ELSE
        LET si_code == w.k.wait_status[1]
            prev_pause_state == w.s.pause_state
            was_stepping_bp ==
                prev_pause_state \in {"SteppingBp", "SteppingBpContOne", "SteppingBpContAll"}
            conv == convert_si_code(si_code)
            w1 == [w EXCEPT !.k.wait_status = None, !.s.pause_state = conv.pause]
        IN IF was_stepping_bp /\ conv.kind = "StepComplete"
           THEN IF w1.s.stepping_thread_bp = None
                THEN [w |-> w1, ev |-> Some("Failed")]       \* Err(InternalError)
                ELSE LET w2 == step_replace_bp_impl(w1)
                         \* discard all new events: waitpid until pid <= 0
                         w3 == [w2 EXCEPT !.k.wait_status = None]
                         w4 == CASE prev_pause_state = "SteppingBpContOne" -> cont_one_impl(w3)
                                 [] prev_pause_state = "SteppingBpContAll" -> cont_impl(w3)
                                 [] OTHER -> w3
                     IN [w |-> w4, ev |-> Some(conv.kind)]
           ELSE [w |-> [w1 EXCEPT !.s.stepping_thread_pid = None], ev |-> Some(conv.kind)]

----------------------------------------------------------------------------
(* The debugger specification: API calls of any thread, the child-event    *)
(* arm of wait_next_event, and the tracee.                                 *)

World == [s |-> state, k |-> tracee]

InitDbg ==
    /\ state = [pause_state |-> "FirstStop",
                stepping_thread_pid |-> None,
                stepping_thread_bp |-> None,
                bps_sorted |-> <<>>,
                bp_id |-> 0,
                reg_mem_dirty |-> TRUE,
                reg_mem |-> None]
    /\ tracee = [rip |-> 0,
                 run |-> "stopped",
                 wait_status |-> None,
                 sigchld |-> FALSE,
                 mem |-> [a \in Addr |-> ProgByte(a)],
                 writers |-> {},
                 user_writes |-> 0]
    /\ returned = None
    /\ pc_read = None
    /\ mem_read = None
    /\ step_watch = [phase |-> "idle", n |-> 0]
    /\ stepover_bp = None

\* the thread is stopped at the trap of a breakpoint of the table
AtBreakpoint ==
    /\ state.pause_state = "SwBreakpointHit"
    /\ tracee.run = "stopped"
    /\ tracee.wait_status = None
    /\ get_breakpoint(state.bps_sorted, tracee.rip - 1) # None

NoObservation ==
    /\ returned' = None
    /\ pc_read' = None
    /\ mem_read' = None

\* a resuming command has run and left the world w
Resumed(w, is_step) ==
    /\ state' = w.s
    /\ tracee' = w.k
    /\ NoObservation
    /\ step_watch' = IF is_step /\ AtBreakpoint
                     THEN [phase |-> "await", n |-> 0]
                     ELSE [phase |-> "idle", n |-> 0]
    /\ stepover_bp' = IF /\ state.pause_state = "SwBreakpointHit"
                         /\ w.s.pause_state \in {"SteppingBp", "SteppingBpContOne",
                                                  "SteppingBpContAll"}
                      THEN Some(w.s.stepping_thread_bp[1].addr)
                      ELSE stepover_bp

\* Debugger::add_breakpoint: runs on the calling thread t
add_breakpoint(t, addr) ==
    /\ Len(state.bps_sorted) < MaxBps
    /\ tracee.run # "exited"
    /\ LET bp_bytes == <<TrapByte>>
           orig_bytes == proc_mem_read(tracee, addr, Len(bp_bytes))
           bp == BreakpointEntry(addr, bp_bytes, orig_bytes)
       IN /\ tracee' = proc_mem_write(tracee, t, addr, bp_bytes)
          /\ \E c \in bp_cont_add_breakpoint(state.bps_sorted, state.bp_id, bp) :
                state' = [state EXCEPT !.bps_sorted = c.bps_sorted, !.bp_id = c.bp_id]
    /\ NoObservation
    /\ UNCHANGED <<step_watch, stepover_bp>>

\* Debugger::write_bytes: runs on the calling thread t
write_bytes(t, addr, value) ==
    /\ tracee.user_writes < MaxUserWrites
    /\ tracee.run # "exited"
    /\ tracee' = [proc_mem_write(tracee, t, addr, value) EXCEPT !.user_writes = @ + 1]
    /\ NoObservation
    /\ UNCHANGED <<state, step_watch, stepover_bp>>

\* Debugger::step: step_impl on the debug thread, directly or proxied as
\* SingleStep; either way the debug thread runs it
step == Resumed(step_impl(World, "Step"), TRUE)

\* Debugger::cont_all
cont_all ==
    IF state.stepping_thread_pid # None
    THEN Resumed(step_impl(World, "Step"), FALSE)
    ELSE Resumed(cont_impl(World), FALSE)

\* Debugger::cont_one
cont_one ==
    IF state.stepping_thread_pid # None
    THEN Resumed(step_impl(World, "Step"), FALSE)
    ELSE Resumed(cont_one_impl(World), FALSE)

\* Debugger::read_register_by_idx_buf for RIP
read_register_by_idx_buf ==
    /\ state' = RegCacheFresh(World).s
    /\ pc_read' = Some(read_register_pc(World))
    /\ returned' = None
    /\ mem_read' = None
    /\ UNCHANGED <<tracee, step_watch, stepover_bp>>

\* Debugger::read_register_by_name_buf for RIP: NotStopped unless is_stopped
read_register_by_name_buf ==
    /\ is_stopped(state.pause_state)
    /\ state' = RegCacheFresh(World).s
    /\ pc_read' = Some(read_register_pc(World))
    /\ returned' = None
    /\ mem_read' = None
    /\ UNCHANGED <<tracee, step_watch, stepover_bp>>

\* Debugger::read_bytes: read_bytes_impl through the BreakpointWrapMemView
read_bytes(addr, count) ==
    /\ addr + count <= MemSize
    /\ tracee.run # "exited"
    /\ \E data \in overlay_read_bytes(tracee, state.bps_sorted, addr, count) :
          mem_read' = Some([addr |-> addr, data |-> data])
    /\ returned' = None
    /\ pc_read' = None
    /\ UNCHANGED <<state, tracee, step_watch, stepover_bp>>

\* wait_next_event, SelectResult::ChildEvent: the SIGCHLD event-fd is
\* readable; read it and run handle_child_event
ChildEvent ==
    /\ tracee.sigchld
    /\ LET r == handle_child_event([s |-> state, k |-> [tracee EXCEPT !.sigchld = FALSE]])
       IN /\ state' = r.w.s
          /\ tracee' = r.w.k
          /\ returned' = r.ev
          /\ step_watch' =
                IF r.ev # None /\ step_watch.phase # "idle"
                THEN [phase |-> "done",
                      n |-> Min(2, step_watch.n + (IF r.ev = Some("StepComplete") THEN 1 ELSE 0))]
                ELSE step_watch
          /\ stepover_bp' = IF r.ev # None THEN None ELSE stepover_bp
    /\ pc_read' = None
    /\ mem_read' = None

\* the tracee executes the instruction at RIP; a stop raises SIGCHLD, whose
\* handler writes to the registered event-fd
TraceeExec ==
    /\ tracee.run \in {"stepping", "running"}
    /\ tracee' =
         IF tracee.rip >= MemSize
         THEN [tracee EXCEPT !.run = "exited", !.wait_status = Some("exited"),
                             !.sigchld = TRUE]
         ELSE IF tracee.mem[tracee.rip] = TrapByte
         THEN [tracee EXCEPT !.rip = @ + 1, !.run = "stopped",
                             !.wait_status = Some("SI_KERNEL"), !.sigchld = TRUE]
         ELSE IF tracee.run = "stepping"
         THEN [tracee EXCEPT !.rip = @ + 1, !.run = "stopped",
                             !.wait_status = Some("TRAP_TRACE"), !.sigchld = TRUE]
         ELSE [tracee EXCEPT !.rip = @ + 1]
    /\ NoObservation
    /\ UNCHANGED <<state, step_watch, stepover_bp>>

----------------------------------------------------------------------------
(* MemView: typed accessors over a StaticMemView.                          *)
(* An integer of 2, 4 or 8 bytes is its bit pattern in 16-bit limbs, least *)
(* significant limb first; the signed types share the pattern of the       *)
(* unsigned ones (two's complement).                                       *)

VARIABLES
    mv_data,      \* StaticMemView.data
    mv_write,     \* the typed write done on the view, once it succeeded
    mv_read,      \* the typed read done in this step
    mv_writes     \* number of typed writes done

mvVars == <<mv_data, mv_write, mv_read, mv_writes>>

MemLen == 10          \* bytes of the StaticMemView
MaxTypedWrites == 1   \* typed writes per behaviour
MaxMvAddr == 2        \* the clients use addresses 0..MaxMvAddr
LimbVals == {258, 65534}    \* 0x0102, 0xFFFE
Endianness == {"LittleEndian", "BigEndian"}
IntTypes == {"u16", "u32", "u64", "i16", "i32", "i64"}
Limbs(ty) == CASE ty \in {"u16", "i16"} -> 1
               [] ty \in {"u32", "i32"} -> 2
               [] ty \in {"u64", "i64"} -> 4
ValuesOf(ty) == [1 .. Limbs(ty) -> LimbVals]

Reverse(s) == [i \in 1 .. Len(s) |-> s[Len(s) + 1 - i]]

\* uN::to_le_bytes / iN::to_le_bytes
to_le_bytes(value) ==
    [i \in 1 .. 2 * Len(value) |->
        IF i % 2 = 1 THEN value[(i + 1) \div 2] % 256
                     ELSE value[i \div 2] \div 256]

\* uN::to_be_bytes / iN::to_be_bytes
to_be_bytes(value) == Reverse(to_le_bytes(value))

\* uN::from_le_bytes / iN::from_le_bytes
from_le_bytes(bytes) ==
    [i \in 1 .. Len(bytes) \div 2 |-> bytes[2 * i - 1] + 256 * bytes[2 * i]]

\* uN::from_be_bytes / iN::from_be_bytes
from_be_bytes(bytes) == from_le_bytes(Reverse(bytes))

\* StaticMemView::read_bytes
static_read_bytes(data, addr, count) ==
    LET addr_end_val == addr + count
    IN IF addr_end_val >= Len(data)
       THEN [ok |-> FALSE, bytes |-> <<>>]
       ELSE [ok |-> TRUE, bytes |-> SubSeq(data, addr + 1, addr_end_val)]

\* StaticMemView::write_bytes
static_write_bytes(data, addr, value) ==
    LET addr_end_val == addr + Len(value)
    IN IF addr_end_val >= Len(data)
       THEN [ok |-> FALSE, data |-> data]
       ELSE [ok |-> TRUE,
             data |-> [i \in 1 .. Len(data) |->
                          IF i > addr /\ i <= addr_end_val
                          THEN value[i - addr] ELSE data[i]]]

\* StaticMemView::max_address
max_address(data) == Len(data)

\* MemView::read_u8
read_u8(data, addr) ==
    LET r == static_read_bytes(data, addr, 1)
    IN IF ~r.ok THEN [ok |-> FALSE, value |-> <<>>]
       ELSE [ok |-> TRUE, value |-> <<r.bytes[1]>>]

\* MemView::read_u16 .. read_i64 differ in the byte count only
read_int(data, addr, count, endian) ==
    LET r == static_read_bytes(data, addr, count)
    IN IF ~r.ok THEN [ok |-> FALSE, value |-> <<>>]
       ELSE [ok |-> TRUE,
             value |-> IF endian = "LittleEndian"
                       THEN from_le_bytes(r.bytes)
                       ELSE from_be_bytes(r.bytes)]

read_u16(data, addr, endian) == read_int(data, addr, 2, endian)
read_u32(data, addr, endian) == read_int(data, addr, 4, endian)
read_u64(data, addr, endian) == read_int(data, addr, 8, endian)
read_i16(data, addr, endian) == read_int(data, addr, 2, endian)
read_i32(data, addr, endian) == read_int(data, addr, 4, endian)
read_i64(data, addr, endian) == read_int(data, addr, 8, endian)

\* MemView::write_u16 .. write_i64 share one body
write_int(data, addr, value, endian) ==
    LET v == IF endian = "LittleEndian"
             THEN to_be_bytes(value)
             ELSE to_le_bytes(value)
    IN static_write_bytes(data, addr, v)

write_u16(data, addr, value, endian) == write_int(data, addr, value, endian)
write_u32(data, addr, value, endian) == write_int(data, addr, value, endian)
write_u64(data, addr, value, endian) == write_int(data, addr, value, endian)
write_i16(data, addr, value, endian) == write_int(data, addr, value, endian)
write_i32(data, addr, value, endian) == write_int(data, addr, value, endian)
write_i64(data, addr, value, endian) == write_int(data, addr, value, endian)

ReadTyped(ty, data, addr, endian) ==
    CASE ty = "u16" -> read_u16(data, addr, endian)
      [] ty = "u32" -> read_u32(data, addr, endian)
      [] ty = "u64" -> read_u64(data, addr, endian)
      [] ty = "i16" -> read_i16(data, addr, endian)
      [] ty = "i32" -> read_i32(data, addr, endian)
      [] ty = "i64" -> read_i64(data, addr, endian)

WriteTyped(ty, data, addr, value, endian) ==
    CASE ty = "u16" -> write_u16(data, addr, value, endian)
      [] ty = "u32" -> write_u32(data, addr, value, endian)
      [] ty = "u64" -> write_u64(data, addr, value, endian)
      [] ty = "i16" -> write_i16(data, addr, value, endian)
      [] ty = "i32" -> write_i32(data, addr, value, endian)
      [] ty = "i64" -> write_i64(data, addr, value, endian)

InitMv ==
    /\ mv_data = [i \in 1 .. MemLen |-> 0]
    /\ mv_write = None
    /\ mv_read = None
    /\ mv_writes = 0

\* a client writes a typed value into the view
MvWrite(ty, addr, value, endian) ==
    /\ mv_writes < MaxTypedWrites
    /\ LET r == WriteTyped(ty, mv_data, addr, value, endian)
       IN /\ mv_data' = r.data
          /\ mv_write' = IF r.ok
                         THEN Some([ty |-> ty, addr |-> addr, endian |-> endian,
                                    value |-> value])
                         ELSE mv_write
    /\ mv_writes' = mv_writes + 1
    /\ mv_read' = None

\* a client reads a typed value from the view
MvRead(ty, addr, endian) ==
    /\ LET r == ReadTyped(ty, mv_data, addr, endian)
       IN mv_read' = Some([ty |-> ty, addr |-> addr, endian |-> endian,
                           ok |-> r.ok, value |-> r.value])
    /\ UNCHANGED <<mv_data, mv_write, mv_writes>>

\* a client reads one byte of the view, at any address up to max_address
MvReadU8(addr) ==
    /\ LET r == read_u8(mv_data, addr)
       IN mv_read' = Some([ty |-> "u8", addr |-> addr, endian |-> "LittleEndian",
                           ok |-> r.ok, value |-> r.value])
    /\ UNCHANGED <<mv_data, mv_write, mv_writes>>

----------------------------------------------------------------------------
(* debugger_linux_sighandler: sigchld_register called by racing threads,   *)
(* and the SIGCHLD handler.  Thread t registers the event-fd t.            *)

VARIABLES
    sigchld_fds,    \* SIGCHLD_FDS: the list the ArcSwap points to
    sigchld_setup,  \* SIGCHLD_SETUP: [locked_by, is_setup]
    sig_installs,   \* number of sigaction(SIGCHLD) calls made
    sig_thread,     \* per registering thread: pc and locals
    sig_written     \* event-fds the handler has written to

sigVars == <<sigchld_fds, sigchld_setup, sig_installs, sig_thread, sig_written>>

NumRegThreads == 2    \* threads calling sigchld_register
RegThreads == 1 .. NumRegThreads

contains(list, fd) == \E i \in 1 .. Len(list) : list[i] = fd

\* the closure sigchld_register hands to rcu
register_update(current, fd) ==
    IF contains(current, fd)
    THEN [result |-> FALSE, new |-> current]
    ELSE [result |-> TRUE, new |-> Append(current, fd)]

\* a plain store: publishes whatever was loaded meanwhile
compare_and_swap_blind(stored, loaded, new) == [ok |-> TRUE, stored |-> new]

\* ArcSwap::rcu publishes with a compare-and-swap on the loaded pointer;
\* the list only grows, so equal lists are the same version
compare_and_swap(stored, loaded, new) ==
    IF stored = loaded
    THEN [ok |-> TRUE, stored |-> new]
    ELSE [ok |-> FALSE, stored |-> stored]

InitSig ==
    /\ sigchld_fds = <<>>
    /\ sigchld_setup = [locked_by |-> None, is_setup |-> FALSE]
    /\ sig_installs = 0
    /\ sig_thread = [t \in RegThreads |->
                        [pc |-> "rcu_load", current |-> <<>>, result |-> FALSE,
                         retried |-> FALSE]]
    /\ sig_written = {}

\* rcu: load the current list
RcuLoad(t) ==
    /\ sig_thread[t].pc = "rcu_load"
    /\ sig_thread' = [sig_thread EXCEPT ![t].pc = "rcu_swap",
                                        ![t].current = sigchld_fds]
    /\ UNCHANGED <<sigchld_fds, sigchld_setup, sig_installs, sig_written>>

\* rcu: run the closure on the loaded list and try to publish its result
RcuSwap(t) ==
    /\ sig_thread[t].pc = "rcu_swap"
    /\ LET u == register_update(sig_thread[t].current, t)
           c == compare_and_swap(sigchld_fds, sig_thread[t].current, u.new)
       IN /\ sigchld_fds' = c.stored
          /\ sig_thread' =
                IF c.ok
                THEN [sig_thread EXCEPT ![t].pc = "lock", ![t].result = u.result]
                ELSE [sig_thread EXCEPT ![t].pc = "rcu_load", ![t].result = u.result,
                                        ![t].retried = TRUE]
    /\ UNCHANGED <<sigchld_setup, sig_installs, sig_written>>

\* SIGCHLD_SETUP.lock()
SetupLock(t) ==
    /\ sig_thread[t].pc = "lock"
    /\ sigchld_setup.locked_by = None
    /\ sigchld_setup' = [sigchld_setup EXCEPT !.locked_by = Some(t)]
    /\ sig_thread' = [sig_thread EXCEPT ![t].pc = "setup"]
    /\ UNCHANGED <<sigchld_fds, sig_installs, sig_written>>

\* under the guard: install the handler unless is_setup
SetupHandler(t) ==
    /\ sig_thread[t].pc = "setup"
    /\ sig_installs' = IF sigchld_setup.is_setup THEN sig_installs
                       ELSE sig_installs + 1
    /\ sigchld_setup' = [sigchld_setup EXCEPT !.is_setup = TRUE]
    /\ sig_thread' = [sig_thread EXCEPT ![t].pc = "unlock"]
    /\ UNCHANGED <<sigchld_fds, sig_written>>

\* the guard is dropped; sigchld_register returns result
SetupUnlock(t) ==
    /\ sig_thread[t].pc = "unlock"
    /\ sigchld_setup' = [sigchld_setup EXCEPT !.locked_by = None]
    /\ sig_thread' = [sig_thread EXCEPT ![t].pc = "done"]
    /\ UNCHANGED <<sigchld_fds, sig_installs, sig_written>>

\* sigchld_handler: a SIGCHLD arrives once the handler is installed
sigchld_handler ==
    /\ sig_installs > 0
    /\ sig_written' = sig_written \cup {sigchld_fds[i] : i \in 1 .. Len(sigchld_fds)}
    /\ UNCHANGED <<sigchld_fds, sigchld_setup, sig_installs, sig_thread>>

----------------------------------------------------------------------------
(* Command proxying: send_cmd_req on the command threads, the action arm   *)
(* of wait_next_event and handle_action_event on the debug thread.         *)

VARIABLES
    cmd_req,      \* the request channel, bounded(1): requests in the buffer
    cmd_rsp,      \* the response channel, bounded(1)
    action_fd,    \* counter of the action event-fd
    cmd_thread,   \* per command thread: pc, commands issued, response got
    dbg_thread,   \* the debug thread: pc and the request it works on
    unanswered,   \* commands submitted and not yet responded to
    state_mutex   \* Mutex<DebuggerLinuxState>: the thread that holds it

chanVars == <<cmd_req, cmd_rsp, action_fd, cmd_thread, dbg_thread, unanswered, state_mutex>>

NumCmdThreads == 2    \* command threads
MaxCmds == 2          \* commands each command thread issues
ChanCap == 1
CmdThreads == 1 .. NumCmdThreads

\* the proxied operations of a command thread whose tracee memory is read
\* with ptrace: cont_all drops the state guard before send_cmd_req,
\* disassemble_one and read_bytes keep it until they return
ProxiedOps == {"Continue", "DisasmOne", "ReadBytes"}
DropsState(op) == op = "Continue"

InitChan ==
    /\ cmd_req = <<>>
    /\ cmd_rsp = <<>>
    /\ action_fd = 0
    /\ cmd_thread = [t \in CmdThreads |-> [pc |-> "idle", issued |-> 0, got |-> None]]
    /\ dbg_thread = [pc |-> "epoll_wait", req |-> None]
    /\ unanswered = {}
    /\ state_mutex = None

\* cont_all / disassemble_one / read_bytes on a command thread: lock the
\* state, find that the operation has to be proxied, and go on to
\* send_cmd_req with or without the guard
CmdCall(t, op) ==
    /\ cmd_thread[t].pc = "idle"
    /\ cmd_thread[t].issued < MaxCmds
    /\ state_mutex = None
    /\ state_mutex' = IF DropsState(op) THEN None ELSE Some(t)
    /\ cmd_thread' = [cmd_thread EXCEPT ![t].pc = "send", ![t].got = None]
    /\ UNCHANGED <<cmd_req, cmd_rsp, action_fd, dbg_thread, unanswered>>

\* send_cmd_req: cmd_req_tx.send(req_op) completes when the buffer has room
CmdSend(t) ==
    /\ cmd_thread[t].pc = "send"
    /\ Len(cmd_req) < ChanCap
    /\ cmd_req' = Append(cmd_req, [from |-> t, n |-> cmd_thread[t].issued + 1])
    /\ cmd_thread' = [cmd_thread EXCEPT ![t].pc = "write_action_fd", ![t].issued = @ + 1]
    /\ unanswered' = unanswered \cup {[from |-> t, n |-> cmd_thread[t].issued + 1]}
    /\ UNCHANGED <<cmd_rsp, action_fd, dbg_thread, state_mutex>>

\* send_cmd_req: libc::write(action_fd)
CmdWriteActionFd(t) ==
    /\ cmd_thread[t].pc = "write_action_fd"
    /\ action_fd' = action_fd + 1
    /\ cmd_thread' = [cmd_thread EXCEPT ![t].pc = "recv"]
    /\ UNCHANGED <<cmd_req, cmd_rsp, dbg_thread, unanswered, state_mutex>>

\* send_cmd_req: cmd_rsp_rx.recv() takes whatever response is in the buffer;
\* the operation returns and drops the state guard if it still has it
CmdRecv(t) ==
    /\ cmd_thread[t].pc = "recv"
    /\ cmd_rsp # <<>>
    /\ cmd_thread' = [cmd_thread EXCEPT ![t].pc = "idle", ![t].got = Some(Head(cmd_rsp))]
    /\ cmd_rsp' = Tail(cmd_rsp)
    /\ state_mutex' = IF state_mutex = Some(t) THEN None ELSE state_mutex
    /\ UNCHANGED <<cmd_req, action_fd, dbg_thread, unanswered>>

\* wait_next_event: epoll_wait reports the action event-fd readable
DbgEpollWait ==
    /\ dbg_thread.pc = "epoll_wait"
    /\ action_fd > 0
    /\ dbg_thread' = [dbg_thread EXCEPT !.pc = "read_action_fd"]
    /\ UNCHANGED <<cmd_req, cmd_rsp, action_fd, cmd_thread, unanswered, state_mutex>>

\* wait_next_event: libc::read(action_fd) resets the counter
DbgReadActionFd ==
    /\ dbg_thread.pc = "read_action_fd"
    /\ action_fd' = 0
    /\ dbg_thread' = [dbg_thread EXCEPT !.pc = "recv"]
    /\ UNCHANGED <<cmd_req, cmd_rsp, cmd_thread, unanswered, state_mutex>>

\* wait_next_event: cmd_req_rx.recv()
DbgRecv ==
    /\ dbg_thread.pc = "recv"
    /\ cmd_req # <<>>
    /\ dbg_thread' = [pc |-> "handle", req |-> Some(Head(cmd_req))]
    /\ cmd_req' = Tail(cmd_req)
    /\ UNCHANGED <<cmd_rsp, action_fd, cmd_thread, unanswered, state_mutex>>

\* handle_action_event: self.state.lock(), run the request's _impl, which
\* consumes the guard
handle_action_event ==
    /\ dbg_thread.pc = "handle"
    /\ state_mutex = None
    /\ dbg_thread' = [dbg_thread EXCEPT !.pc = "send_rsp"]
    /\ UNCHANGED <<cmd_req, cmd_rsp, action_fd, cmd_thread, unanswered, state_mutex>>

\* handle_action_event: cmd_rsp_tx.send(rsp)
DbgSendRsp ==
    /\ dbg_thread.pc = "send_rsp"
    /\ Len(cmd_rsp) < ChanCap
    /\ cmd_rsp' = Append(cmd_rsp, dbg_thread.req[1])
    /\ unanswered' = unanswered \ {dbg_thread.req[1]}
    /\ dbg_thread' = [pc |-> "epoll_wait", req |-> None]
    /\ UNCHANGED <<cmd_req, action_fd, cmd_thread, state_mutex>>

----------------------------------------------------------------------------
(* wait_next_event: the epoll loop of the debug thread and its pending     *)
(* events.  An event is [fd, id]; id numbers the events in the order       *)
(* epoll_wait handed them out.                                             *)

VARIABLES
    ep_ready,        \* fds the epoll instance holds readable (level-triggered)
    events,          \* the events array of the running call, event_count long
    cur_event_idx,   \* events of the array already taken
    wait_pc,         \* "idle": no call running; "loop": inside wait_next_event
    no_block,        \* the running call's argument
    pending_events,  \* DebuggerLinuxState.pending_events
    wait_ret,        \* what the last call returned
    dequeued,        \* every event epoll_wait handed out, in order
    processed,       \* every event the dispatch loop took, in order
    from_pending     \* the events array is the copy of pending_events

waitVars == <<ep_ready, events, cur_event_idx, wait_pc, no_block, pending_events,
              wait_ret, dequeued, processed, from_pending>>

NumUserFds == 2       \* fds added with add_event_id
MaxDequeued == 4      \* events epoll_wait hands out per behaviour
ActionFd == [kind |-> "action_fd", n |-> 0]
SigchldFd == [kind |-> "sigchld_fd", n |-> 0]
UserFds == {[kind |-> "user", n |-> i] : i \in 1 .. NumUserFds}
Fds == {ActionFd, SigchldFd} \cup UserFds

Orderings(S) ==
    {f \in [1 .. Cardinality(S) -> S] : \A i, j \in 1 .. Cardinality(S) : f[i] = f[j] => i = j}

\* a return that drops the events behind the returned one
save_old_events_none(pending, evs, idx) == pending

\* "save old events and return now"
save_old_events(pending, evs, idx) == pending \o SubSeq(evs, idx + 1, Len(evs))

InitWait ==
    /\ ep_ready = {}
    /\ events = <<>>
    /\ cur_event_idx = 0
    /\ wait_pc = "idle"
    /\ no_block = FALSE
    /\ pending_events = <<>>
    /\ wait_ret = "none"
    /\ dequeued = <<>>
    /\ processed = <<>>
    /\ from_pending = FALSE

\* a command thread wrote action_fd, the SIGCHLD handler wrote sigchld_fd,
\* or a user fd became readable
FdReady(fd) ==
    /\ fd \notin ep_ready
    /\ ep_ready' = ep_ready \cup {fd}
    /\ UNCHANGED <<events, cur_event_idx, wait_pc, no_block, pending_events, wait_ret,
                   dequeued, processed, from_pending>>

\* wait_next_event is entered: the pending events become the events array
WaitEnter(nb) ==
    /\ wait_pc = "idle"
    /\ wait_pc' = "loop"
    /\ no_block' = nb
    /\ events' = pending_events
    /\ cur_event_idx' = 0
    /\ pending_events' = <<>>
    /\ from_pending' = (pending_events # <<>>)
    /\ wait_ret' = "none"
    /\ UNCHANGED <<ep_ready, dequeued, processed>>

\* event_count == 0 and no_block: return NoEvent
WaitNoEvent ==
    /\ wait_pc = "loop"
    /\ events = <<>>
    /\ no_block
    /\ wait_pc' = "idle"
    /\ wait_ret' = "NoEvent"
    /\ UNCHANGED <<ep_ready, events, cur_event_idx, no_block, pending_events,
                   dequeued, processed, from_pending>>

\* event_count == 0: epoll_wait blocks until fds are readable and hands
\* them out in some order
WaitEpoll ==
    /\ wait_pc = "loop"
    /\ events = <<>>
    /\ ~no_block
    /\ ep_ready # {}
    /\ Len(dequeued) + Cardinality(ep_ready) <= MaxDequeued
    /\ \E f \in Orderings(ep_ready) :
          LET evs == [i \in 1 .. Cardinality(ep_ready) |->
                         [fd |-> f[i], id |-> Len(dequeued) + i]]
          IN /\ events' = evs
             /\ dequeued' = dequeued \o evs
    /\ cur_event_idx' = 0
    /\ from_pending' = FALSE
    /\ UNCHANGED <<ep_ready, wait_pc, no_block, pending_events, wait_ret, processed>>

\* one turn of `while cur_event_idx < event_count`; has_stop: waitpid finds
\* a stop that handle_child_event turns into an event
WaitDispatch(has_stop) ==
    /\ wait_pc = "loop"
    /\ cur_event_idx < Len(events)
    /\ LET evt == events[cur_event_idx + 1]
           idx == cur_event_idx + 1
           returns == \/ evt.fd \in UserFds
                      \/ evt.fd = SigchldFd /\ has_stop
       IN /\ processed' = Append(processed, evt)
          /\ ep_ready' = IF evt.fd \in {ActionFd, SigchldFd}
                         THEN ep_ready \ {evt.fd} ELSE ep_ready
          /\ IF returns
             THEN /\ pending_events' = save_old_events(pending_events, events, idx)
                  /\ wait_pc' = "idle"
                  /\ wait_ret' = IF evt.fd \in UserFds THEN "UserEvent" ELSE "ChildEvent"
                  /\ events' = <<>>
                  /\ cur_event_idx' = 0
                  /\ from_pending' = FALSE
             ELSE /\ events' = IF idx = Len(events) THEN <<>> ELSE events
                  /\ cur_event_idx' = IF idx = Len(events) THEN 0 ELSE idx
                  /\ from_pending' = (from_pending /\ idx < Len(events))
                  /\ UNCHANGED <<pending_events, wait_pc, wait_ret>>
    /\ UNCHANGED <<no_block, dequeued>>

----------------------------------------------------------------------------
(* ChunkedFreeMemView: memory kept in chunks of chunk_len bytes, each with *)
(* the range of it that has been written.                                  *)

VARIABLES
    cf_chunks,     \* ChunkedFreeMemView.chunks: chunk index -> None | Some(chunk)
    cf_read,       \* the read done in this step
    cf_last,       \* address -> the byte last written there, None if never
    cf_ranges,     \* the ranges <<addr, len>> written so far
    cf_writes      \* number of writes done

cfVars == <<cf_chunks, cf_read, cf_last, cf_ranges, cf_writes>>

CfChunkLen == 2      \* chunk_len
CfMaxAddr == 4       \* clients start their accesses at 0..CfMaxAddr
CfMaxLen == 2        \* bytes per access: 0..CfMaxLen
CfMaxWrites == 2     \* writes per behaviour
CfAddrs == 0 .. (CfMaxAddr + CfMaxLen)
CfChunkIdxs == 0 .. ((CfMaxAddr + CfMaxLen) \div CfChunkLen)

\* FreeMemChunk::new
FreeMemChunk(range_start, range_len, len) ==
    [range_start |-> range_start, range_len |-> range_len,
     data |-> [i \in 1 .. len |-> 0]]

\* ChunkedFreeMemView::read_bytes, the loop over the chunks
RECURSIVE chunked_read_loop(_, _, _, _, _, _, _)
chunked_read_loop(chunks, chunk_len, end_addr, cur_chunk_idx, cur_src_chunk_off, count, out) ==
    LET cur_src_addr == cur_chunk_idx * chunk_len + cur_src_chunk_off
    IN IF cur_src_addr >= end_addr THEN [ok |-> TRUE, data |-> out]
       ELSE IF chunks[cur_chunk_idx] = None THEN [ok |-> FALSE, data |-> <<>>]
       ELSE LET chunk_info == chunks[cur_chunk_idx][1]
                chunk_range_end == chunk_info.range_start + chunk_info.range_len
                chunk_start_idx == cur_src_chunk_off
                chunk_bytes_left == chunk_len - chunk_start_idx
                bytes_to_read == Min(chunk_bytes_left, count)
                chunk_end_idx == chunk_start_idx + bytes_to_read
            IN IF chunk_start_idx < chunk_info.range_start \/ chunk_end_idx > chunk_range_end
               THEN [ok |-> FALSE, data |-> <<>>]
               ELSE chunked_read_loop(chunks, chunk_len, end_addr, cur_chunk_idx + 1, 0,
                        count - bytes_to_read,
                        out \o SubSeq(chunk_info.data, chunk_start_idx + 1, chunk_end_idx))

\* ChunkedFreeMemView::read_bytes
chunked_read_bytes(chunks, chunk_len, addr, count) ==
    IF count < 0 THEN [ok |-> TRUE, data |-> <<>>]
    ELSE chunked_read_loop(chunks, chunk_len, addr + count, addr \div chunk_len,
                           addr % chunk_len, count, <<>>)

\* a write that leaves the chunk's range as it was
chunked_extend_range_keep(chunk_info, chunk_start_idx, chunk_end_idx) == chunk_info

\* ChunkedFreeMemView::write_bytes: widen the chunk's range to the write
chunked_extend_range(chunk_info, chunk_start_idx, chunk_end_idx) ==
    LET c1 == IF chunk_start_idx < chunk_info.range_start
              THEN [chunk_info EXCEPT
                       !.range_start = chunk_start_idx,
                       !.range_len = @ + (chunk_info.range_start - chunk_start_idx)]
              ELSE chunk_info
        chunk_range_end == c1.range_start + c1.range_len
    IN IF chunk_end_idx > chunk_range_end
       THEN [c1 EXCEPT !.range_len = @ + (chunk_end_idx - chunk_range_end)]
       ELSE c1

\* ChunkedFreeMemView::write_bytes, the loop over the chunks
RECURSIVE chunked_write_loop(_, _, _, _, _, _, _, _)
chunked_write_loop(chunks, chunk_len, end_addr, cur_chunk_idx, off, count, value, src) ==
    LET cur_dst_chunk_off == off
        cur_src_addr == src
        cur_dst_addr == cur_chunk_idx * chunk_len + cur_dst_chunk_off
    IN IF cur_dst_addr >= end_addr THEN chunks
       ELSE LET chunk_start_idx == cur_dst_chunk_off
                chunk_bytes_left == chunk_len - chunk_start_idx
                bytes_to_write == Min(chunk_bytes_left, count)
                chunk_end_idx == chunk_start_idx + bytes_to_write
                entry == IF chunks[cur_chunk_idx] = None
                         THEN FreeMemChunk(chunk_start_idx, chunk_end_idx - chunk_start_idx,
                                           chunk_len)
                         ELSE chunks[cur_chunk_idx][1]
                ranged == chunked_extend_range(entry, chunk_start_idx, chunk_end_idx)
                chunk_info == [ranged EXCEPT !.data =
                                 [i \in 1 .. chunk_len |->
                                    IF i > chunk_start_idx /\ i <= chunk_end_idx
                                    THEN value[cur_src_addr + (i - chunk_start_idx)]
                                    ELSE ranged.data[i]]]
            IN chunked_write_loop([chunks EXCEPT ![cur_chunk_idx] = Some(chunk_info)],
                                  chunk_len, end_addr, cur_chunk_idx + 1, 0,
                                  count - bytes_to_write, value, cur_src_addr + bytes_to_write)

\* ChunkedFreeMemView::write_bytes
chunked_write_bytes(chunks, chunk_len, addr, value) ==
    chunked_write_loop(chunks, chunk_len, addr + Len(value), addr \div chunk_len,
                       addr % chunk_len, Len(value), value, 0)

\* the bytes of the n-th write: every byte tells its write and its place
CfValue(n, len) == [i \in 1 .. len |-> 16 * n + i]

InitCf ==
    /\ cf_chunks = [c \in CfChunkIdxs |-> None]
    /\ cf_read = None
    /\ cf_last = [a \in CfAddrs |-> None]
    /\ cf_ranges = {}
    /\ cf_writes = 0

\* a client writes len bytes at addr
CfWrite(addr, len) ==
    /\ cf_writes < CfMaxWrites
    /\ LET value == CfValue(cf_writes + 1, len)
       IN /\ cf_chunks' = chunked_write_bytes(cf_chunks, CfChunkLen, addr, value)
          /\ cf_last' = [a \in CfAddrs |->
                            IF a >= addr /\ a < addr + len
                            THEN Some(value[a - addr + 1]) ELSE cf_last[a]]
    /\ cf_ranges' = cf_ranges \cup {<<addr, len>>}
    /\ cf_writes' = cf_writes + 1
    /\ cf_read' = None

\* a client reads count bytes at addr
CfRead(addr, count) ==
    /\ LET r == chunked_read_bytes(cf_chunks, CfChunkLen, addr, count)
       IN cf_read' = Some([addr |-> addr, count |-> count, ok |-> r.ok, data |-> r.data])
    /\ UNCHANGED <<cf_chunks, cf_last, cf_ranges, cf_writes>>

----------------------------------------------------------------------------
(* GBF reader: a long-key table of fixed-length records.  The table is a   *)
(* chain of leaves (GbfLongFixedNode) under a root that is either the only *)
(* leaf or an interior node (GbfLongInteriorNode) with one entry per leaf. *)

VARIABLES
    gbf_tree,      \* the table as it lies in the file
    gbf_env,       \* what the file and the build make of an entry index outside a leaf
    gbf_last,      \* the lookup done in this step and its result
    gbf_iter,      \* GbfTableViewIterator of the client
    gbf_yielded    \* the records the iterator has yielded

gbfVars == <<gbf_tree, gbf_env, gbf_last, gbf_iter, gbf_yielded>>

MaxGbfKey == 3       \* stored keys are 0..MaxGbfKey
MaxGbfLeaves == 2    \* leaves under an interior root
GbfMinKey == 0       \* the smallest possible key (i64::MIN)
GbfKeys == GbfMinKey .. MaxGbfKey
GbfQueryKeys == GbfMinKey .. (MaxGbfKey + 1)
NoNid == 0 - 1       \* prev_leaf_nid / next_leaf_nid of an end of the chain
StaleKey == MaxGbfKey + 2        \* bytes found where a leaf has no entry, read as a key
StaleValue == 200 + StaleKey     \* the same, read as a record value

\* the record value stored with key k
GbfValue(k) == 100 + k

\* Result<Option<GbfRecord>, MemViewError>; Panic is an arithmetic overflow
\* in a build with overflow checks
GbfSome(k, v) == [kind |-> "Some", key |-> k, value |-> v]
GbfNone == [kind |-> "None", key |-> 0, value |-> 0]
GbfFail(kind) == [kind |-> kind, key |-> 0, value |-> 0]

\* BinarySearchMatch
Found(i) == [found |-> TRUE, idx |-> i]
Missing(i) == [found |-> FALSE, idx |-> i]

\* the keys of set S in ascending order
SortedSeq(S) ==
    CHOOSE s \in [1 .. Cardinality(S) -> S] :
        \A i, j \in 1 .. Cardinality(S) : i < j => s[i] < s[j]

SetMin(S) == CHOOSE x \in S : \A y \in S : x <= y
SetMax(S) == CHOOSE x \in S : \A y \in S : x >= y

\* the leaves of a table that stores the keys S, cut at the keys of C
LeavesOf(S, C) ==
    LET cuts == SortedSeq(C)
        n == Len(cuts)
    IN [i \in 1 .. n |->
          [keys |-> SortedSeq({k \in S : k >= cuts[i] /\ (i < n => k < cuts[i + 1])}),
           prev_leaf_nid |-> IF i = 1 THEN NoNid ELSE i - 1,
           next_leaf_nid |-> IF i = n THEN NoNid ELSE i + 1]]

\* the well-formed tables that store the keys S: the root is a leaf, or an
\* interior node whose entries hold each leaf's least key and its node id
GbfTreesOf(S) ==
    {[root |-> "LONGKEY_FIXED_REC", interior |-> <<>>,
      leaves |-> <<[keys |-> SortedSeq(S), prev_leaf_nid |-> NoNid, next_leaf_nid |-> NoNid]>>]}
    \cup
    {[root |-> "LONGKEY_INTERIOR",
      interior |-> [i \in 1 .. Cardinality(C) |-> [key |-> SortedSeq(C)[i], value |-> i]],
      leaves |-> LeavesOf(S, C)]
        : C \in {c \in SUBSET S : /\ c # {}
                                  /\ SetMin(S) \in c
                                  /\ Cardinality(c) <= MaxGbfLeaves}}

GbfTrees == UNION {GbfTreesOf(S) : S \in SUBSET GbfKeys}

GbfEnvs == [tail : {"stale", "EndOfStream"}, overflow_checks : BOOLEAN]

\* find_entry_index_by_key, the loop (the same in both node kinds)
RECURSIVE find_entry_loop(_, _, _, _)
find_entry_loop(keys, key, min, max) ==
    IF min > max THEN Missing(min)
    ELSE LET i == (min + max) \div 2
             k == keys[i + 1]
         IN IF k = key THEN Found(i)
            ELSE IF k < key THEN find_entry_loop(keys, key, i + 1, max)
            ELSE find_entry_loop(keys, key, min, i - 1)

\* GbfLongInteriorNode::find_entry_index_by_key
interior_find_entry_index_by_key(keys, key) ==
    IF Len(keys) = 0 THEN Missing(0)
    ELSE IF Len(keys) = 1 THEN Found(0)
    ELSE find_entry_loop(keys, key, 1, Len(keys) - 1)

\* GbfLongInteriorNode::get_entry
interior_get_entry(entries, key) ==
    LET m == interior_find_entry_index_by_key([i \in 1 .. Len(entries) |-> entries[i].key], key)
    IN IF m.found THEN [kind |-> "Ok", nid |-> entries[m.idx + 1].value]
       ELSE [kind |-> "Generic", nid |-> NoNid]

\* GbfTableView::get_leaf_node_long
get_leaf_node_long(tree, key) ==
    IF tree.root = "LONGKEY_INTERIOR" THEN interior_get_entry(tree.interior, key)
    ELSE [kind |-> "Ok", nid |-> 1]

\* GbfLongFixedNode::find_entry_index_by_key
find_entry_index_by_key(node, key) ==
    IF Len(node.keys) = 0 THEN Missing(0)
    ELSE IF Len(node.keys) = 1 THEN Found(0)
    ELSE find_entry_loop(node.keys, key, 1, Len(node.keys) - 1)

\* GbfLongFixedNode::get_entry_offset and the read at it: an index below 0
\* overflows the multiplication, one past the entries reads what follows
EntryRead(node, index, env) ==
    IF index < 0 THEN (IF env.overflow_checks THEN "Panic" ELSE "stale")
    ELSE IF index < Len(node.keys) THEN "entry"
    ELSE env.tail

\* GbfLongFixedNode::get_key_at
get_key_at(node, index, env) ==
    LET rd == EntryRead(node, index, env)
    IN IF rd = "entry" THEN [kind |-> "Ok", key |-> node.keys[index + 1]]
       ELSE IF rd = "stale" THEN [kind |-> "Ok", key |-> StaleKey]
       ELSE [kind |-> rd, key |-> 0]

\* GbfLongFixedNode::get_entry_by_index
get_entry_by_index(node, key, index, env) ==
    LET rd == EntryRead(node, index, env)
    IN IF rd = "entry" THEN GbfSome(key, GbfValue(node.keys[index + 1]))
       ELSE IF rd = "stale" THEN GbfSome(key, StaleValue)
       ELSE GbfFail(rd)

\* GbfLongFixedNode::get_entry
get_entry(node, key, env) ==
    LET m == find_entry_index_by_key(node, key)
    IN IF m.found THEN get_entry_by_index(node, key, m.idx, env) ELSE GbfNone

\* GbfLongFixedNode::get_prev_node_last_entry
get_prev_node_last_entry(tree, node, key, env) ==
    IF node.prev_leaf_nid = NoNid THEN GbfNone
    ELSE LET prev_node == tree.leaves[node.prev_leaf_nid]
         IN IF Len(prev_node.keys) < 1 THEN GbfNone
            ELSE get_entry_by_index(prev_node, key, Len(prev_node.keys) - 1, env)

\* GbfLongFixedNode::get_next_node_first_entry
get_next_node_first_entry(tree, node, key, env) ==
    IF node.next_leaf_nid = NoNid THEN GbfNone
    ELSE LET next_node == tree.leaves[node.next_leaf_nid]
         IN IF Len(next_node.keys) < 1 THEN GbfNone
            ELSE get_entry_by_index(next_node, key, 0, env)

\* the Missing arm of get_entry_at_before and get_entry_before
MissingBefore(tree, node, node_entry_idx, env) ==
    LET result_index == node_entry_idx - 1
        real_key == get_key_at(node, result_index, env)
    IN IF real_key.kind # "Ok" THEN GbfFail(real_key.kind)
       ELSE IF result_index < 0 THEN get_prev_node_last_entry(tree, node, real_key.key, env)
       ELSE get_entry_by_index(node, real_key.key, result_index, env)

\* the Missing arm of get_entry_at_after and get_entry_after
MissingAfter(tree, node, node_entry_idx, env) ==
    LET result_index == node_entry_idx
        real_key == get_key_at(node, result_index, env)
    IN IF real_key.kind # "Ok" THEN GbfFail(real_key.kind)
       ELSE IF result_index >= Len(node.keys)
            THEN get_next_node_first_entry(tree, node, real_key.key, env)
       ELSE get_entry_by_index(node, real_key.key, result_index, env)

\* GbfLongFixedNode::get_entry_at_before
get_entry_at_before(tree, node, key, env) ==
    LET m == find_entry_index_by_key(node, key)
    IN IF m.found THEN get_entry_by_index(node, key, m.idx, env)
       ELSE MissingBefore(tree, node, m.idx, env)

\* GbfLongFixedNode::get_entry_before
get_entry_before(tree, node, key, env) ==
    LET m == find_entry_index_by_key(node, key)
    IN IF m.found
       THEN LET result_index == m.idx - 1
            IN IF result_index < 0 THEN get_prev_node_last_entry(tree, node, key, env)
               ELSE get_entry_by_index(node, key, m.idx, env)
       ELSE MissingBefore(tree, node, m.idx, env)

\* GbfLongFixedNode::get_entry_at_after
get_entry_at_after(tree, node, key, env) ==
    LET m == find_entry_index_by_key(node, key)
    IN IF m.found THEN get_entry_by_index(node, key, m.idx, env)
       ELSE MissingAfter(tree, node, m.idx, env)

\* GbfLongFixedNode::get_entry_after
get_entry_after(tree, node, key, env) ==
    LET m == find_entry_index_by_key(node, key)
    IN IF m.found
       THEN LET result_index == m.idx + 1
            IN IF result_index >= Len(node.keys)
               THEN get_next_node_first_entry(tree, node, key, env)
               ELSE get_entry_by_index(node, key, result_index, env)
       ELSE MissingAfter(tree, node, m.idx, env)

GbfOps ==
    {"get_record_at_long", "get_record_before_long", "get_record_at_before_long",
     "get_record_after_long", "get_record_at_after_long"}

\* GbfTableView::get_record_at_long and its four neighbours: descend to the
\* leaf, then ask the leaf
get_record_long(op, tree, key, env) ==
    LET d == get_leaf_node_long(tree, key)
    IN IF d.kind # "Ok" THEN GbfFail(d.kind)
       ELSE LET fixed_node == tree.leaves[d.nid]
            IN CASE op = "get_record_at_long" -> get_entry(fixed_node, key, env)
                 [] op = "get_record_before_long" -> get_entry_before(tree, fixed_node, key, env)
                 [] op = "get_record_at_before_long" ->
                        get_entry_at_before(tree, fixed_node, key, env)
                 [] op = "get_record_after_long" -> get_entry_after(tree, fixed_node, key, env)
                 [] op = "get_record_at_after_long" ->
                        get_entry_at_after(tree, fixed_node, key, env)

\* GbfTableViewIterator::new
iterator_new(tree, key) ==
    LET d == get_leaf_node_long(tree, key)
    IN IF d.kind # "Ok" THEN [kind |-> d.kind, nid |-> NoNid, idx |-> 0]
       ELSE LET fixed_node == tree.leaves[d.nid]
            IN IF Len(fixed_node.keys) > 0
               THEN LET m == find_entry_index_by_key(fixed_node, key)
                        entry_idx == IF m.idx < 0 THEN 0 ELSE m.idx
                    IN [kind |-> "LongFixedIterator", nid |-> d.nid, idx |-> entry_idx]
               ELSE [kind |-> "EmptyIterator", nid |-> NoNid, idx |-> 0]

\* the iterator as the call to next found it
IterStay(it, out) == [out |-> out, nid |-> it.nid, idx |-> it.idx]

\* GbfLongFixedIterator::next: what it returns (None, an error, or a
\* record) and where it leaves the iterator
fixed_iterator_next(tree, it, env) ==
    LET cur_node == tree.leaves[it.nid]
        key == get_key_at(cur_node, it.idx, env)
    IN IF key.kind # "Ok" THEN IterStay(it, GbfFail(key.kind))
       ELSE LET entry == get_entry_by_index(cur_node, key.key, it.idx, env)
            IN IF entry.kind # "Some" THEN IterStay(it, entry)
               ELSE IF it.idx + 1 < Len(cur_node.keys)
                    THEN [out |-> entry, nid |-> it.nid, idx |-> it.idx + 1]
               ELSE IF cur_node.next_leaf_nid = NoNid THEN IterStay(it, GbfNone)
               ELSE IF Len(tree.leaves[cur_node.next_leaf_nid].keys) < 1
                    THEN [out |-> GbfNone, nid |-> cur_node.next_leaf_nid, idx |-> it.idx]
               ELSE [out |-> entry, nid |-> cur_node.next_leaf_nid, idx |-> 0]

\* GbfTableViewIterator::next
iterator_next(tree, it, env) ==
    IF it.kind = "LongFixedIterator" THEN fixed_iterator_next(tree, it, env)
    ELSE IterStay(it, GbfNone)

InitGbf ==
    /\ gbf_tree = None
    /\ gbf_env = None
    /\ gbf_last = None
    /\ gbf_iter = None
    /\ gbf_yielded = <<>>

\* a client opens a table view on a file
GbfOpen(tree, env) ==
    /\ gbf_tree = None
    /\ gbf_tree' = Some(tree)
    /\ gbf_env' = Some(env)
    /\ UNCHANGED <<gbf_last, gbf_iter, gbf_yielded>>

\* a client looks a key up
GetRecordLong(op, key) ==
    /\ gbf_tree # None
    /\ gbf_last' = Some([op |-> op, key |-> key,
                         leaf |-> get_leaf_node_long(gbf_tree[1], key),
                         res |-> get_record_long(op, gbf_tree[1], key, gbf_env[1])])
    /\ UNCHANGED <<gbf_tree, gbf_env, gbf_iter, gbf_yielded>>

\* a client makes an iterator that starts at key; a failed constructor
\* leaves it without one
IterNew(key) ==
    LET it == iterator_new(gbf_tree[1], key)
    IN /\ gbf_tree # None
       /\ gbf_iter' = Some([start |-> key, kind |-> it.kind, nid |-> it.nid, idx |-> it.idx,
                            done |-> it.kind \notin {"LongFixedIterator", "EmptyIterator"},
                            end |-> GbfFail(it.kind)])
       /\ gbf_yielded' = <<>>
       /\ gbf_last' = None
       /\ UNCHANGED <<gbf_tree, gbf_env>>

\* the client's loop takes the next item; None or an error ends the loop
IterNext ==
    /\ gbf_iter # None
    /\ ~gbf_iter[1].done
    /\ LET n == iterator_next(gbf_tree[1], gbf_iter[1], gbf_env[1])
       IN /\ gbf_iter' = Some([gbf_iter[1] EXCEPT !.nid = n.nid, !.idx = n.idx,
                                                  !.done = n.out.kind # "Some", !.end = n.out])
          /\ gbf_yielded' = IF n.out.kind = "Some" THEN Append(gbf_yielded, n.out)
                            ELSE gbf_yielded
    /\ gbf_last' = None
    /\ UNCHANGED <<gbf_tree, gbf_env>>

----------------------------------------------------------------------------
(* GbfTables: the catalog GbfFile::new builds from the rows of the master  *)
(* table.                                                                  *)

VARIABLES
    tbl_master,    \* the master table of the file that was opened
    tbl_result     \* Result<GbfTables, MemViewError> of GbfTables::new

tblVars == <<tbl_master, tbl_result>>

MaxMasterRows == 3     \* rows of the master table: 0..MaxMasterRows
MaxIndexColumn == 0    \* IndexColumn of a row: -1..MaxIndexColumn
TableNames == {"Metadata", "Symbols"}
IndexColumns == (0 - 1) .. MaxIndexColumn
\* a master-table row whose columns parse: TableName and IndexColumn
MasterRows == [name : TableNames, indexing_column : IndexColumns]

\* the master tables: rows under the keys 1..n, in a tree over those keys.
\* The master schema has String columns, so its leaves are var-record
\* nodes; they hold the same keys and links as fixed-record nodes do.
MasterTables ==
    UNION {[tree : GbfTreesOf(1 .. n), rows : [1 .. n -> MasterRows]] : n \in 0 .. MaxMasterRows}

\* GbfTableViewIterator over var-record leaves, started at the smallest
\* key: it yields every row in ascending key order
var_iterator_items(master) == master.rows

\* HashMap<String, GbfTableDef>: per name, whether it is there and how
\* many index_table_defs it has
NoTableDefs == [n \in TableNames |-> [present |-> FALSE, index_table_defs |-> 0]]

\* GbfTables::new, the loop over the items of the iterator
RECURSIVE tables_new_loop(_, _, _)
tables_new_loop(items, i, table_defs) ==
    IF i > Len(items) THEN [kind |-> "Ok", msg |-> "", table_defs |-> table_defs]
    ELSE LET name == items[i].name
             indexing_column == items[i].indexing_column
         IN IF table_defs[name].present
            THEN IF indexing_column = 0 - 1
                 THEN [kind |-> "Generic", msg |-> "base table was not first",
                       table_defs |-> NoTableDefs]
                 ELSE tables_new_loop(items, i + 1,
                          [table_defs EXCEPT ![name].index_table_defs = @ + 1])
            ELSE IF indexing_column # 0 - 1
                 THEN [kind |-> "Generic", msg |-> "base table was not first",
                       table_defs |-> NoTableDefs]
                 ELSE tables_new_loop(items, i + 1,
                          [table_defs EXCEPT ![name].present = TRUE])

\* GbfTables::new
tables_new(master) ==
    LET d == get_leaf_node_long(master.tree, GbfMinKey)
    IN IF d.kind # "Ok"
       THEN [kind |-> d.kind,
             msg |-> "found invalid interior node that is either empty or corrupt",
             table_defs |-> NoTableDefs]
       ELSE tables_new_loop(var_iterator_items(master), 1, NoTableDefs)

InitTbl ==
    /\ tbl_master = None
    /\ tbl_result = None

\* GbfFile::new reads the catalog of the file it opens
GbfFileNew(master) ==
    /\ tbl_master = None
    /\ tbl_master' = Some(master)
    /\ tbl_result' = Some(tables_new(master))

----------------------------------------------------------------------------
(* Disasm::disasm_proto: the context register of one instruction, the      *)
(* context ops of the constructors it enters, and the context patterns its *)
(* constructor resolution tests.                                           *)

VARIABLES
    dis_status,    \* "idle" | "decoding" | "panicked"
    dis_ctx,       \* DisasmState.ctx
    dis_expect,    \* the context as the rewrites asked for so far leave it
    dis_frames,    \* constructor frames entered in this instruction
    dis_seen       \* the context word the last pattern test read

disVars == <<dis_status, dis_ctx, dis_expect, dis_frames, dis_seen>>

CtxWords == 2        \* words of the context register
CtxValueBits == 2    \* context words, masks and values use their low bits
MaxCtxOps == 1       \* context ops of a constructor: 1..MaxCtxOps
MaxFrames == 2       \* constructor frames entered per instruction
CtxValues == 0 .. (2 ^ CtxValueBits - 1)

\* u32 & !mask, | and << on values that stay below 2^CtxValueBits
RECURSIVE AndNot(_, _)
AndNot(a, mask) ==
    IF a = 0 THEN 0
    ELSE (a % 2) * (1 - (mask % 2)) + 2 * AndNot(a \div 2, mask \div 2)

RECURSIVE BitOr(_, _)
BitOr(a, b) ==
    IF a = 0 /\ b = 0 THEN 0
    ELSE (IF a % 2 = 1 \/ b % 2 = 1 THEN 1 ELSE 0) + 2 * BitOr(a \div 2, b \div 2)

Shl(a, n) == a * (2 ^ n)

\* ContextOpTpl with the value its expression evaluates to; the shifted
\* value stays in the modelled bits
ContextOps ==
    {op \in [word_start : 0 .. (CtxWords - 1), bit_shift : 0 .. (CtxValueBits - 1),
             mask : CtxValues, exp_value : CtxValues] :
        Shl(op.exp_value, op.bit_shift) \in CtxValues}

\* read_ctx_u32_bits_at for a whole word (bit_off a multiple of 32,
\* bit_size 32): the word ctx[bit_off / 32], a panic if there is none
read_ctx_u32_bits_at(ctx, bit_off, bit_size) ==
    LET start_byte == bit_off \div 32
    IN IF start_byte >= Len(ctx) THEN [panic |-> TRUE, value |-> 0]
       ELSE [panic |-> FALSE, value |-> ctx[start_byte + 1]]

\* DisasmState::read_ctx_u32_at: off counts bytes
read_ctx_u32_at(ctx, off) == read_ctx_u32_bits_at(ctx, off * 8, 32)

\* write_ctx_u32_bits_at for a whole word: the mask covers the word
write_ctx_u32_bits_at(ctx, bit_off, bit_size, value) ==
    LET start_byte == bit_off \div 32
    IN IF start_byte >= Len(ctx) THEN [panic |-> TRUE, ctx |-> ctx]
       ELSE [panic |-> FALSE, ctx |-> [ctx EXCEPT ![start_byte + 1] = value]]

\* Disasm::set_context, from the i-th context op on
RECURSIVE set_context(_, _, _)
set_context(ctx, context_ops, i) ==
    IF i > Len(context_ops) THEN [panic |-> FALSE, ctx |-> ctx]
    ELSE LET context_op == context_ops[i]
             old_ctx_val == read_ctx_u32_at(ctx, context_op.word_start * 32)
         IN IF old_ctx_val.panic THEN [panic |-> TRUE, ctx |-> ctx]
            ELSE LET new_ctx_val == BitOr(AndNot(old_ctx_val.value, context_op.mask),
                                          Shl(context_op.exp_value, context_op.bit_shift))
                     w == write_ctx_u32_bits_at(ctx, context_op.word_start * 32, 32, new_ctx_val)
                 IN IF w.panic THEN w ELSE set_context(w.ctx, context_ops, i + 1)

\* the rewrites the context ops ask for: word word_start becomes
\* (word & ~mask) | (value << bit_shift)
RECURSIVE RewriteContext(_, _, _)
RewriteContext(ctx, context_ops, i) ==
    IF i > Len(context_ops) THEN ctx
    ELSE LET op == context_ops[i]
             word == ctx[op.word_start + 1]
         IN RewriteContext(
                [ctx EXCEPT ![op.word_start + 1] =
                    BitOr(AndNot(word, op.mask), Shl(op.exp_value, op.bit_shift))],
                context_ops, i + 1)

InitDis ==
    /\ dis_status = "idle"
    /\ dis_ctx = <<>>
    /\ dis_expect = <<>>
    /\ dis_frames = 0
    /\ dis_seen = None

\* disasm_proto starts on an instruction with a copy of initial_ctx
DisasmStart(initial_ctx) ==
    /\ dis_status = "idle"
    /\ dis_status' = "decoding"
    /\ dis_ctx' = initial_ctx
    /\ dis_expect' = initial_ctx
    /\ dis_frames' = 0
    /\ dis_seen' = None

\* disasm_proto enters the frame of a constructor with context ops
EnterConstructor(context_ops) ==
    /\ dis_status = "decoding"
    /\ dis_frames < MaxFrames
    /\ LET r == set_context(dis_ctx, context_ops, 1)
       IN /\ dis_status' = IF r.panic THEN "panicked" ELSE "decoding"
          /\ dis_ctx' = r.ctx
    /\ dis_expect' = RewriteContext(dis_expect, context_ops, 1)
    /\ dis_frames' = dis_frames + 1
    /\ dis_seen' = None

\* resolve_ctor tests a context pattern on the word at byte offset 4 * word
ResolveContextPattern(word) ==
    /\ dis_status = "decoding"
    /\ LET data == read_ctx_u32_at(dis_ctx, 4 * word)
       IN dis_seen' = Some([word |-> word, data |-> data.value])
    /\ UNCHANGED <<dis_status, dis_ctx, dis_expect, dis_frames>>

\* disasm_proto returns its prototype
DisasmDone ==
    /\ dis_status = "decoding"
    /\ dis_status' = "idle"
    /\ dis_seen' = None
    /\ UNCHANGED <<dis_ctx, dis_expect, dis_frames>>

----------------------------------------------------------------------------
(* Disasm::resolve_ctor: the walk down a decision tree over the            *)
(* instruction word read at the start address, and the scan of the leaf's  *)
(* (constructor id, pattern) pairs.  A 32-bit word is its four bytes, most *)
(* significant first.                                                      *)

VARIABLES
    rs_input,      \* the memory, context, decision tree and address of the call
    rs_result      \* Result<i32, &str> of resolve_ctor

rsVars == <<rs_input, rs_result>>

MaxInsLen == 5       \* bytes of the StaticMemView: 1..MaxInsLen
MaxPairs == 2        \* pairs of a decision-tree leaf: 0..MaxPairs
MaxAt == 1           \* start addresses: 0..MaxAt
OpcodeBytes == {144, 148, 195}   \* 0x90, 0x94, 0xc3
MaskBytes == {255, 240}
ZeroWord == <<0, 0, 0, 0>>

RECURSIVE BitAnd(_, _)
BitAnd(a, b) ==
    IF a = 0 \/ b = 0 THEN 0
    ELSE (a % 2) * (b % 2) + 2 * BitAnd(a \div 2, b \div 2)

\* data & mask on words
WordAnd(data, mask) == [i \in 1 .. 4 |-> BitAnd(data[i], mask[i])]

\* the memories: an opcode byte followed by zero bytes
InsMemories ==
    {[i \in 1 .. n |-> IF i = 1 THEN b ELSE 0] : n \in 1 .. MaxInsLen, b \in OpcodeBytes}

\* DisjointPattern: one (mask, value) pair per block, on the first opcode
\* byte and on the low bits of context word 0
InsBlocks ==
    {[offset |-> 0, mask |-> <<m, 0, 0, 0>>, value |-> <<v, 0, 0, 0>>]
        : m \in MaskBytes, v \in {144}}
CtxBlocks == {[offset |-> 0, mask |-> 1, value |-> v] : v \in {0, 1}}
Patterns ==
    {[pat_type |-> "InstructionPattern", pat_blocks |-> <<b>>] : b \in InsBlocks}
    \cup {[pat_type |-> "ContextPattern", pat_blocks |-> <<b>>] : b \in CtxBlocks}
    \cup {[pat_type |-> "CombinePattern", pat_blocks |-> <<c, b>>]
             : c \in CtxBlocks, b \in InsBlocks}

\* the pairs of a leaf: constructor ids in stored order
PairLists ==
    UNION {[1 .. n -> Patterns] : n \in 0 .. MaxPairs}
LeafOf(pats) ==
    [size |-> 0, start |-> 0, context |-> FALSE, children |-> <<>>,
     pairs |-> [i \in 1 .. Len(pats) |-> [ctor_id |-> i - 1, pattern |-> pats[i]]]]

\* Decision: a leaf, or a node on instruction bit 1 over that leaf and a
\* leaf without pairs
Decisions ==
    {LeafOf(p) : p \in PairLists}
    \cup {[size |-> 1, start |-> 1, context |-> FALSE,
           children |-> <<LeafOf(p), LeafOf(<<>>)>>, pairs |-> <<>>] : p \in PairLists}

\* DisasmState::read_mem_u32_at with big_endian = true, on a StaticMemView
read_mem_u32_at(mem, off) ==
    LET r == static_read_bytes(mem, off, 4)
    IN IF r.ok THEN [ok |-> TRUE, word |-> r.bytes] ELSE [ok |-> FALSE, word |-> ZeroWord]

\* DisjointPattern::check_ins_pattern
check_ins_pattern(mem, at, pat_block) ==
    LET data == read_mem_u32_at(mem, at + pat_block.offset)
    IN data.ok /\ WordAnd(data.word, pat_block.mask) = pat_block.value

\* DisjointPattern::check_ctx_pattern
check_ctx_pattern(ctx, pat_block) ==
    LET data == read_ctx_u32_at(ctx, pat_block.offset)
    IN ~data.panic /\ BitAnd(data.value, pat_block.mask) = pat_block.value

\* DisjointPattern::is_match
is_match(pattern, mem, ctx, at) ==
    CASE pattern.pat_type = "InstructionPattern" ->
            check_ins_pattern(mem, at, pattern.pat_blocks[1])
      [] pattern.pat_type = "ContextPattern" -> check_ctx_pattern(ctx, pattern.pat_blocks[1])
      [] pattern.pat_type = "CombinePattern" ->
            /\ check_ctx_pattern(ctx, pattern.pat_blocks[1])
            /\ check_ins_pattern(mem, at, pattern.pat_blocks[2])

\* bit i of a word, counted from its most significant bit
WordBit(word, i) == (word[i \div 8 + 1] \div (2 ^ (7 - (i % 8)))) % 2

\* resolve_ctor: tmp <<= start; tmp >>= 32 - size, for bits of the first word
RECURSIVE check_bits(_, _, _)
check_bits(word, start, size) ==
    IF size = 0 THEN 0
    ELSE 2 * check_bits(word, start, size - 1) + WordBit(word, start + size - 1)

\* a scan that takes the last pair that matches
RECURSIVE find_constructor_last(_, _, _, _, _)
find_constructor_last(pairs, i, mem, ctx, at) ==
    LET m == {j \in 1 .. Len(pairs) : is_match(pairs[j].pattern, mem, ctx, at)}
    IN IF m = {} THEN [kind |-> "<pattern not found>", ctor_id |-> 0 - 1]
       ELSE [kind |-> "Ok", ctor_id |-> pairs[CHOOSE j \in m : \A k \in m : k <= j].ctor_id]

\* resolve_ctor: find constructor, from the i-th pair on
RECURSIVE find_constructor(_, _, _, _, _)
find_constructor(pairs, i, mem, ctx, at) ==
    IF i > Len(pairs) THEN [kind |-> "<pattern not found>", ctor_id |-> 0 - 1]
    ELSE IF is_match(pairs[i].pattern, mem, ctx, at)
         THEN [kind |-> "Ok", ctor_id |-> pairs[i].ctor_id]
    ELSE find_constructor(pairs, i + 1, mem, ctx, at)

\* resolve_ctor: the loop down the decision tree, to the leaf
RECURSIVE decision_leaf(_, _)
decision_leaf(decision, word) ==
    IF decision.size # 0
    THEN decision_leaf(decision.children[check_bits(word, decision.start, decision.size) + 1],
                       word)
    ELSE decision

\* Disasm::resolve_ctor
resolve_ctor(decision, mem, ctx, at) ==
    LET first == read_mem_u32_at(mem, at)
    IN IF ~first.ok THEN [kind |-> "<invalid read>", ctor_id |-> 0 - 1]
       ELSE find_constructor(decision_leaf(decision, first.word).pairs, 1, mem, ctx, at)

InitRs ==
    /\ rs_input = None
    /\ rs_result = None

\* disasm_proto resolves the constructor of the instruction at address at
ResolveCtor ==
    /\ rs_input = None
    /\ \E decision \in Decisions, mem \in InsMemories, c \in {0, 1}, at \in 0 .. MaxAt :
        /\ rs_input' = Some([decision |-> decision, mem |-> mem, ctx |-> <<c>>, at |-> at])
        /\ rs_result' = Some(resolve_ctor(decision, mem, <<c>>, at))

----------------------------------------------------------------------------
(* DebuggerLinuxMemView without /proc/pid/mem: write_bytes falls back to   *)
(* PTRACE_PEEKDATA / PTRACE_POKEDATA, one machine word at a time.  A word  *)
(* is its WRDSZ bytes in memory order (from_ne_bytes / to_ne_bytes).       *)

VARIABLES
    pt_mem,        \* the tracee's memory, a byte per address
    pt_last,       \* the last write_bytes call: its arguments, result and the memory before
    pt_writes      \* calls made

ptVars == <<pt_mem, pt_last, pt_writes>>

WRDSZ == 8
MaxWriteLen == 17    \* value.len() ranges over 1..MaxWriteLen
MaxPtAddr == 1       \* addr ranges over 0..MaxPtAddr
MaxPtWrites == 2     \* calls of write_bytes
PtFill == 255        \* the bytes of the tracee before the first write

PtAddrs == 0 .. (MaxPtAddr + MaxWriteLen + WRDSZ)

\* the values written: byte i of value number f is 32 * f + i
PtValues == {[i \in 1 .. n |-> 32 * f + i] : n \in 1 .. MaxWriteLen, f \in 1 .. 2}

\* superpt::peekdata
peekdata(mem, addr) == [i \in 1 .. WRDSZ |-> mem[addr + i - 1]]

\* superpt::pokedata
pokedata(mem, addr, v) ==
    [a \in DOMAIN mem |-> IF a >= addr /\ a < addr + WRDSZ THEN v[a - addr + 1] ELSE mem[a]]

\* (orig_v & !mask) | (from_bytes(slice) & mask), mask the low bytes_left bytes
MaskedWord(orig_v, slice, bytes_left) ==
    [i \in 1 .. WRDSZ |-> IF i <= bytes_left THEN slice[i] ELSE orig_v[i]]

\* DebuggerLinuxMemView::write_bytes, the loop of the ptrace branch; the
\* slice value[pos..pos + WRDSZ] panics when it runs past the end of value
RECURSIVE ptrace_write_loop(_, _, _, _, _)
ptrace_write_loop(mem, addr, value, pos, bytes_left) ==
    IF bytes_left = 0 THEN [status |-> "Ok", mem |-> mem]
    ELSE IF bytes_left >= WRDSZ
    THEN LET v == [i \in 1 .. WRDSZ |-> value[pos + i]]
         IN ptrace_write_loop(pokedata(mem, addr, v), addr, value, pos + 8, bytes_left - 8)
    ELSE LET orig_v == peekdata(mem, addr)
         IN IF pos + WRDSZ > Len(value) THEN [status |-> "panic", mem |-> mem]
            ELSE LET slice == [i \in 1 .. WRDSZ |-> value[pos + i]]
                 IN [status |-> "Ok",
                     mem |-> pokedata(mem, addr, MaskedWord(orig_v, slice, bytes_left))]

\* DebuggerLinuxMemView::write_bytes with proc_mem = None
ptrace_write_bytes(mem, addr, value) == ptrace_write_loop(mem, addr, value, 0, Len(value))

InitPt ==
    /\ pt_mem = [a \in PtAddrs |-> PtFill]
    /\ pt_last = None
    /\ pt_writes = 0

\* a client writes value at addr through the memory view
PtWriteBytes(addr, value) ==
    /\ pt_writes < MaxPtWrites
    /\ LET r == ptrace_write_bytes(pt_mem, addr, value)
       IN /\ pt_mem' = r.mem
          /\ pt_last' = Some([addr |-> addr, value |-> value, status |-> r.status,
                               before |-> pt_mem])
    /\ pt_writes' = pt_writes + 1

----------------------------------------------------------------------------
(* Specifications *)

vars == <<dbgVars, mvVars, sigVars, chanVars, waitVars, cfVars, gbfVars, tblVars, disVars, rsVars, ptVars>>

Init == InitDbg /\ InitMv /\ InitSig /\ InitChan /\ InitWait /\ InitCf /\ InitGbf /\ InitTbl /\ InitDis /\ InitRs /\ InitPt

Next ==
    \/ (\E t \in Threads, a \in Addr : add_breakpoint(t, a)) /\ UNCHANGED <<mvVars, sigVars, chanVars, waitVars, cfVars, gbfVars, tblVars, disVars, rsVars, ptVars>>
    \/ (\E t \in Threads, a \in Addr, v \in UserBytes : write_bytes(t, a, <<v>>))
          /\ UNCHANGED <<mvVars, sigVars, chanVars, waitVars, cfVars, gbfVars, tblVars, disVars, rsVars, ptVars>>
    \/ step /\ UNCHANGED <<mvVars, sigVars, chanVars, waitVars, cfVars, gbfVars, tblVars, disVars, rsVars, ptVars>>
    \/ cont_all /\ UNCHANGED <<mvVars, sigVars, chanVars, waitVars, cfVars, gbfVars, tblVars, disVars, rsVars, ptVars>>
    \/ cont_one /\ UNCHANGED <<mvVars, sigVars, chanVars, waitVars, cfVars, gbfVars, tblVars, disVars, rsVars, ptVars>>
    \/ read_register_by_idx_buf /\ UNCHANGED <<mvVars, sigVars, chanVars, waitVars, cfVars, gbfVars, tblVars, disVars, rsVars, ptVars>>
    \/ read_register_by_name_buf /\ UNCHANGED <<mvVars, sigVars, chanVars, waitVars, cfVars, gbfVars, tblVars, disVars, rsVars, ptVars>>
    \/ (\E a \in Addr, n \in 1 .. MemSize : read_bytes(a, n)) /\ UNCHANGED <<mvVars, sigVars, chanVars, waitVars, cfVars, gbfVars, tblVars, disVars, rsVars, ptVars>>
    \/ ChildEvent /\ UNCHANGED <<mvVars, sigVars, chanVars, waitVars, cfVars, gbfVars, tblVars, disVars, rsVars, ptVars>>
    \/ TraceeExec /\ UNCHANGED <<mvVars, sigVars, chanVars, waitVars, cfVars, gbfVars, tblVars, disVars, rsVars, ptVars>>

Spec == Init /\ [][Next]_vars

NextMem ==
    \/ (\E ty \in IntTypes, a \in 0 .. MaxMvAddr, e \in Endianness :
          \E v \in ValuesOf(ty) : MvWrite(ty, a, v, e)) /\ UNCHANGED <<dbgVars, sigVars, chanVars, waitVars, cfVars, gbfVars, tblVars, disVars, rsVars, ptVars>>
    \/ (\E ty \in IntTypes, a \in 0 .. MaxMvAddr, e \in Endianness :
          MvRead(ty, a, e)) /\ UNCHANGED <<dbgVars, sigVars, chanVars, waitVars, cfVars, gbfVars, tblVars, disVars, rsVars, ptVars>>
    \/ (\E a \in 0 .. max_address(mv_data) : MvReadU8(a))
          /\ UNCHANGED <<dbgVars, sigVars, chanVars, waitVars, cfVars, gbfVars, tblVars, disVars, rsVars, ptVars>>

SpecMem == Init /\ [][NextMem]_vars

NextSig ==
    \/ (\E t \in RegThreads : RcuLoad(t)) /\ UNCHANGED <<dbgVars, mvVars, chanVars, waitVars, cfVars, gbfVars, tblVars, disVars, rsVars, ptVars>>
    \/ (\E t \in RegThreads : RcuSwap(t)) /\ UNCHANGED <<dbgVars, mvVars, chanVars, waitVars, cfVars, gbfVars, tblVars, disVars, rsVars, ptVars>>
    \/ (\E t \in RegThreads : SetupLock(t)) /\ UNCHANGED <<dbgVars, mvVars, chanVars, waitVars, cfVars, gbfVars, tblVars, disVars, rsVars, ptVars>>
    \/ (\E t \in RegThreads : SetupHandler(t)) /\ UNCHANGED <<dbgVars, mvVars, chanVars, waitVars, cfVars, gbfVars, tblVars, disVars, rsVars, ptVars>>
    \/ (\E t \in RegThreads : SetupUnlock(t)) /\ UNCHANGED <<dbgVars, mvVars, chanVars, waitVars, cfVars, gbfVars, tblVars, disVars, rsVars, ptVars>>
    \/ sigchld_handler /\ UNCHANGED <<dbgVars, mvVars, chanVars, waitVars, cfVars, gbfVars, tblVars, disVars, rsVars, ptVars>>

SpecSig == Init /\ [][NextSig]_vars

NextChan ==
    \/ (\E t \in CmdThreads, op \in ProxiedOps : CmdCall(t, op))
          /\ UNCHANGED <<dbgVars, mvVars, sigVars, waitVars, cfVars, gbfVars, tblVars, disVars, rsVars, ptVars>>
    \/ (\E t \in CmdThreads : CmdSend(t)) /\ UNCHANGED <<dbgVars, mvVars, sigVars, waitVars, cfVars, gbfVars, tblVars, disVars, rsVars, ptVars>>
    \/ (\E t \in CmdThreads : CmdWriteActionFd(t)) /\ UNCHANGED <<dbgVars, mvVars, sigVars, waitVars, cfVars, gbfVars, tblVars, disVars, rsVars, ptVars>>
    \/ (\E t \in CmdThreads : CmdRecv(t)) /\ UNCHANGED <<dbgVars, mvVars, sigVars, waitVars, cfVars, gbfVars, tblVars, disVars, rsVars, ptVars>>
    \/ DbgEpollWait /\ UNCHANGED <<dbgVars, mvVars, sigVars, waitVars, cfVars, gbfVars, tblVars, disVars, rsVars, ptVars>>
    \/ DbgReadActionFd /\ UNCHANGED <<dbgVars, mvVars, sigVars, waitVars, cfVars, gbfVars, tblVars, disVars, rsVars, ptVars>>
    \/ DbgRecv /\ UNCHANGED <<dbgVars, mvVars, sigVars, waitVars, cfVars, gbfVars, tblVars, disVars, rsVars, ptVars>>
    \/ handle_action_event /\ UNCHANGED <<dbgVars, mvVars, sigVars, waitVars, cfVars, gbfVars, tblVars, disVars, rsVars, ptVars>>
    \/ DbgSendRsp /\ UNCHANGED <<dbgVars, mvVars, sigVars, waitVars, cfVars, gbfVars, tblVars, disVars, rsVars, ptVars>>

SpecChan == Init /\ [][NextChan]_vars

NextWait ==
    \/ (\E fd \in Fds : FdReady(fd)) /\ UNCHANGED <<dbgVars, mvVars, sigVars, chanVars, cfVars, gbfVars, tblVars, disVars, rsVars, ptVars>>
    \/ (\E nb \in BOOLEAN : WaitEnter(nb)) /\ UNCHANGED <<dbgVars, mvVars, sigVars, chanVars, cfVars, gbfVars, tblVars, disVars, rsVars, ptVars>>
    \/ WaitNoEvent /\ UNCHANGED <<dbgVars, mvVars, sigVars, chanVars, cfVars, gbfVars, tblVars, disVars, rsVars, ptVars>>
    \/ WaitEpoll /\ UNCHANGED <<dbgVars, mvVars, sigVars, chanVars, cfVars, gbfVars, tblVars, disVars, rsVars, ptVars>>
    \/ (\E has_stop \in BOOLEAN : WaitDispatch(has_stop))
          /\ UNCHANGED <<dbgVars, mvVars, sigVars, chanVars, cfVars, gbfVars, tblVars, disVars, rsVars, ptVars>>

SpecWait == Init /\ [][NextWait]_vars

NextChunked ==
    \/ (\E a \in 0 .. CfMaxAddr, n \in 0 .. CfMaxLen : CfWrite(a, n))
          /\ UNCHANGED <<dbgVars, mvVars, sigVars, chanVars, waitVars, gbfVars, tblVars, disVars, rsVars, ptVars>>
    \/ (\E a \in 0 .. CfMaxAddr, n \in 0 .. CfMaxLen : CfRead(a, n))
          /\ UNCHANGED <<dbgVars, mvVars, sigVars, chanVars, waitVars, gbfVars, tblVars, disVars, rsVars, ptVars>>

SpecChunked == Init /\ [][NextChunked]_vars

NextGbf ==
    \/ (\E t \in GbfTrees, e \in GbfEnvs : GbfOpen(t, e))
          /\ UNCHANGED <<dbgVars, mvVars, sigVars, chanVars, waitVars, cfVars, tblVars, disVars, rsVars, ptVars>>
    \/ (\E op \in GbfOps, k \in GbfQueryKeys : GetRecordLong(op, k))
          /\ UNCHANGED <<dbgVars, mvVars, sigVars, chanVars, waitVars, cfVars, tblVars, disVars, rsVars, ptVars>>
    \/ (\E k \in GbfQueryKeys : IterNew(k))
          /\ UNCHANGED <<dbgVars, mvVars, sigVars, chanVars, waitVars, cfVars, tblVars, disVars, rsVars, ptVars>>
    \/ IterNext /\ UNCHANGED <<dbgVars, mvVars, sigVars, chanVars, waitVars, cfVars, tblVars, disVars, rsVars, ptVars>>

SpecGbf == Init /\ [][NextGbf]_vars

NextTables ==
    (\E master \in MasterTables : GbfFileNew(master))
        /\ UNCHANGED <<dbgVars, mvVars, sigVars, chanVars, waitVars, cfVars, gbfVars, disVars, rsVars, ptVars>>

SpecTables == Init /\ [][NextTables]_vars

NextDisasm ==
    \/ (\E c \in [1 .. CtxWords -> CtxValues] : DisasmStart(c))
          /\ UNCHANGED <<dbgVars, mvVars, sigVars, chanVars, waitVars, cfVars, gbfVars, tblVars, rsVars, ptVars>>
    \/ (\E n \in 1 .. MaxCtxOps : \E ops \in [1 .. n -> ContextOps] : EnterConstructor(ops))
          /\ UNCHANGED <<dbgVars, mvVars, sigVars, chanVars, waitVars, cfVars, gbfVars, tblVars, rsVars, ptVars>>
    \/ (\E w \in 0 .. (CtxWords - 1) : ResolveContextPattern(w))
          /\ UNCHANGED <<dbgVars, mvVars, sigVars, chanVars, waitVars, cfVars, gbfVars, tblVars, rsVars, ptVars>>
    \/ DisasmDone
          /\ UNCHANGED <<dbgVars, mvVars, sigVars, chanVars, waitVars, cfVars, gbfVars, tblVars, rsVars, ptVars>>

SpecDisasm == Init /\ [][NextDisasm]_vars

NextResolve ==
    ResolveCtor
        /\ UNCHANGED <<dbgVars, mvVars, sigVars, chanVars, waitVars, cfVars, gbfVars, tblVars, disVars, ptVars>>

SpecResolve == Init /\ [][NextResolve]_vars

NextPtrace ==
    (\E addr \in 0 .. MaxPtAddr, value \in PtValues : PtWriteBytes(addr, value))
        /\ UNCHANGED <<dbgVars, mvVars, sigVars, chanVars, waitVars, cfVars, gbfVars, tblVars, disVars, rsVars>>

SpecPtrace == Init /\ [][NextPtrace]_vars

----------------------------------------------------------------------------
(* Properties of the debugger specification.                               *)

\* C1: after `step` at a breakpoint (pause state SwBreakpointHit, PC = a),
\* the event wait_next_event returns for that step, the tracee still being
\* alive, is a StepComplete, and there is exactly one of it.
C1_StepAtBpOneStepComplete ==
    (step_watch.phase = "done" /\ tracee.run # "exited") => step_watch.n = 1

\* C2: when the stop that ends a step-over is processed and StepComplete
\* comes out, the raw byte at the stepped-over breakpoint is the trap byte.
C2_StepOverRestoresTrap ==
    [][(stepover_bp # None /\ returned' = Some("StepComplete"))
          => tracee'.mem[stepover_bp[1]] = TrapByte]_vars

\* C3: when the single-step of a continue redirected into a step-over
\* (SteppingBpContOne / SteppingBpContAll) completes, processing the stop
\* resumes the tracee and returns no event to the caller.
C3_ContStepOverSuppressed ==
    [][(/\ tracee.sigchld /\ ~tracee'.sigchld
        /\ state.pause_state \in {"SteppingBpContOne", "SteppingBpContAll"}
        /\ tracee.wait_status = Some("TRAP_TRACE"))
          => (returned' = None /\ tracee'.run = "running")]_vars

\* C4: a read through the breakpoint overlay never shows the trap of a
\* breakpoint: at every address a breakpoint covers it yields an original
\* byte recorded for that address, whatever other breakpoints exist.
C4_OverlayShowsOriginal ==
    mem_read # None =>
        \A i \in 1 .. Len(mem_read[1].data) :
            LET a == mem_read[1].addr + i - 1
                covering == {j \in 1 .. Len(state.bps_sorted) :
                                state.bps_sorted[j].addr = a}
            IN covering # {} =>
                  mem_read[1].data[i] \in
                      {state.bps_sorted[j].orig_bytes[1] : j \in covering}

\* C7: only the debug thread ever writes the tracee's memory.
C7_OnlyDebugThreadWrites == tracee.writers \subseteq {"dbg"}

\* C9: while the pause state is SwBreakpointHit, a read of the PC reports
\* the trap address, one below the RIP the kernel holds.
C9_PcIsTrapAddress ==
    (pc_read # None /\ state.pause_state = "SwBreakpointHit"
        /\ tracee.run = "stopped")
        => pc_read[1] = tracee.rip - 1


\* C24: once the stop that completes a step has been processed and the
\* thread is left stopped, the stepping-thread slot is empty, so the next
\* cont_all / cont_one continues instead of single-stepping again.
C24_StepSlotCleared ==
    (returned = Some("StepComplete") /\ tracee.run = "stopped")
        => state.stepping_thread_pid = None

\* C27: while the tracee runs after cont_one, cont_all or the continue that
\* follows a step-over, the recorded pause state is not one that is_stopped
\* treats as stopped.
C27_PauseStateAgrees ==
    tracee.run = "running" => ~is_stopped(state.pause_state)

\* C28: when a thread stopped on the trap of a breakpoint at a is stepped
\* over it, the RIP the kernel holds is a while the single step is under
\* way, so the step executes the instruction restored at a.
C28_StepOverFromTrapAddress ==
    (/\ state.pause_state \in {"SteppingBp", "SteppingBpContOne", "SteppingBpContAll"}
     /\ tracee.run = "stepping")
        => tracee.rip = state.stepping_thread_bp[1].addr

\* C29: no entry of the breakpoint table has the trap byte as its saved
\* original byte, also after add_breakpoint on an address that already
\* carries a breakpoint.
C29_OriginalNeverTrap ==
    \A i \in 1 .. Len(state.bps_sorted) : state.bps_sorted[i].orig_bytes # <<TrapByte>>
----------------------------------------------------------------------------
(* Properties of the MemView specification.                                *)

\* C10: a typed read at the address, with the type and the endianness of
\* the typed write that succeeded before it, yields the written value.
C10_TypedRoundTrip ==
    (/\ mv_read # None /\ mv_write # None
     /\ mv_read[1].ty = mv_write[1].ty
     /\ mv_read[1].addr = mv_write[1].addr
     /\ mv_read[1].endian = mv_write[1].endian)
        => (mv_read[1].ok /\ mv_read[1].value = mv_write[1].value)

\* C11: read_u8 at address a of a view succeeds exactly when
\* 0 <= a < max_address (so the last byte, a = max_address - 1, is
\* readable) and fails with EndOfStream at a = max_address.
C11_ReadU8WithinMaxAddress ==
    (mv_read # None /\ mv_read[1].ty = "u8")
        => (mv_read[1].ok <=> mv_read[1].addr < max_address(mv_data))

----------------------------------------------------------------------------
(* Properties of the SIGCHLD registration specification.                   *)

AllRegistered == \A t \in RegThreads : sig_thread[t].pc = "done"

\* C8: when racing sigchld_register calls with distinct event-fds have all
\* returned, the handler was installed exactly once, every call returned
\* true, and the registered list holds every fd (exactly once).
C8_RegisterRace ==
    AllRegistered =>
        /\ sig_installs = 1
        /\ \A t \in RegThreads : sig_thread[t].result
        /\ \A t \in RegThreads :
              Cardinality({i \in 1 .. Len(sigchld_fds) : sigchld_fds[i] = t}) = 1

\* the calls raced: one of them lost its compare-and-swap and retried
C8_Witness ==
    /\ AllRegistered
    /\ \E t \in RegThreads : sig_thread[t].retried
    /\ Len(sigchld_fds) = NumRegThreads

----------------------------------------------------------------------------
(* Properties of the command proxying specification.                       *)

\* C5: commands are serialized: no command's send on the request channel
\* completes while an earlier command has not been responded to, so at most
\* one submitted command is unanswered at any time.
C5_CommandsSerialized == Cardinality(unanswered) <= 1


\* C25: with two command threads proxying concurrently, the response a
\* command thread receives is the one produced for its own request.
C25_OwnResponse ==
    \A t \in CmdThreads :
        cmd_thread[t].got # None =>
            cmd_thread[t].got[1] = [from |-> t, n |-> cmd_thread[t].issued]

\* C26: a command thread blocked on the response channel does not hold the
\* state mutex, so the debug thread can lock the state to serve it.
C26_NoMutexWhileWaiting ==
    \A t \in CmdThreads : cmd_thread[t].pc = "recv" => state_mutex # Some(t)
----------------------------------------------------------------------------
(* Properties of the wait_next_event specification.                        *)

IsPrefix(s, t) == Len(s) <= Len(t) /\ SubSeq(t, 1, Len(s)) = s

\* the events handed out and not yet taken by the dispatch loop
Undelivered == pending_events \o SubSeq(events, cur_event_idx + 1, Len(events))

\* C6 as stated: the events a call leaves in the pending queue are all
\* processed by the next call, so a call that started from the pending
\* queue leaves nothing pending when it returns.
C6_DrainedByNextCall ==
    [][(wait_pc = "loop" /\ wait_pc' = "idle" /\ from_pending)
          => pending_events' = <<>>]_vars

\* C6 amended: no dequeued event is lost and the order is kept (the events
\* taken are a prefix of the events handed out, the rest wait in order in
\* the events array or the pending queue), and epoll_wait is not entered
\* again before every event handed out has been taken, by the next call or
\* the ones after it.
C6_NoneLostInOrder ==
    [][/\ IsPrefix(processed', dequeued')
       /\ dequeued' = processed' \o Undelivered'
       /\ (dequeued' # dequeued => processed = dequeued)]_vars

\* a call has taken an event that an earlier call left pending, and more
\* of them wait
C6_Witness ==
    /\ wait_pc = "loop"
    /\ from_pending
    /\ cur_event_idx > 0
    /\ Len(processed) < Len(dequeued)


\* C30: wait_next_event(no_block = true) returns NoEvent only when the
\* epoll set holds no child-stop or user-fd notification ready.
C30_NoEventOnlyIfNothingReady ==
    [][(wait_ret' = "NoEvent" /\ wait_ret # "NoEvent")
          => ep_ready \cap ({SigchldFd} \cup UserFds) = {}]_vars
----------------------------------------------------------------------------
(* Properties of the ChunkedFreeMemView specification.                     *)

\* the byte at address a lies in a present chunk, inside its valid range
CfValid(a) ==
    LET c == cf_chunks[a \div CfChunkLen]
        off == a % CfChunkLen
    IN c # None /\ off >= c[1].range_start /\ off < c[1].range_start + c[1].range_len

\* C12: a read contained in a range written before succeeds and returns,
\* byte for byte, what was written there last; a read that touches a byte
\* of an absent chunk or outside its chunk's valid range fails
\* (EndOfStream).
C12_ChunkedReadBack ==
    cf_read # None =>
        LET r == cf_read[1]
            touched == {a \in CfAddrs : a >= r.addr /\ a < r.addr + r.count}
        IN /\ (\E w \in cf_ranges : r.addr >= w[1] /\ r.addr + r.count <= w[1] + w[2])
                => /\ r.ok
                   /\ Len(r.data) = r.count
                   /\ \A i \in 1 .. r.count : Some(r.data[i]) = cf_last[r.addr + i - 1]
           /\ (\E a \in touched : ~CfValid(a)) => ~r.ok

\* a read across two chunks of bytes that two different writes left there
C12_Witness ==
    /\ cf_read # None
    /\ cf_read[1].ok
    /\ cf_read[1].count = 2
    /\ cf_read[1].addr % CfChunkLen = CfChunkLen - 1
    /\ cf_read[1].data[1] \div 16 # cf_read[1].data[2] \div 16
    /\ \E w \in cf_ranges :
          cf_read[1].addr >= w[1] /\ cf_read[1].addr + 2 <= w[1] + w[2]

----------------------------------------------------------------------------
(* Properties of the GBF reader specification.                             *)

\* the keys the table stores, and the record stored with one of them
GbfStored == UNION {{l.keys[i] : i \in 1 .. Len(l.keys)} : l \in
                       {gbf_tree[1].leaves[n] : n \in 1 .. Len(gbf_tree[1].leaves)}}
StoredRecord(k) == GbfSome(k, GbfValue(k))
GbfBelow(k) == {s \in GbfStored : s < k}
GbfAbove(k) == {s \in GbfStored : s > k}

\* the first item of an iteration that starts at key
IterFirst(key) ==
    LET it == iterator_new(gbf_tree[1], key)
    IN IF it.kind \notin {"LongFixedIterator", "EmptyIterator"} THEN GbfFail(it.kind)
       ELSE iterator_next(gbf_tree[1], it, gbf_env[1]).out

GbfHit(r, k) == r.kind = "Some" /\ r.key = k

\* C13: get_at(k) returns Some(r) with r.key = k exactly when the
\* iteration that starts at k yields that same r first.
C13_PointLookupMatchesIteration ==
    (gbf_last # None /\ gbf_last[1].op = "get_record_at_long") =>
        LET k == gbf_last[1].key
            r == gbf_last[1].res
            first == IterFirst(k)
        IN GbfHit(r, k) <=> (GbfHit(first, k) /\ first = r)

\* C14: get_before(k) and get_after(k) never return a record whose key is
\* k; when k is stored, get_before returns the stored record just below k
\* and get_after the stored record just above it.
C14_BeforeAfterStrict ==
    (gbf_last # None /\ gbf_last[1].op \in {"get_record_before_long", "get_record_after_long"}) =>
        LET k == gbf_last[1].key
            r == gbf_last[1].res
            side == IF gbf_last[1].op = "get_record_before_long" THEN GbfBelow(k) ELSE GbfAbove(k)
            nearest == IF gbf_last[1].op = "get_record_before_long" THEN SetMax(side)
                       ELSE SetMin(side)
        IN /\ r.kind = "Some" => r.key # k
           /\ (k \in GbfStored /\ side # {}) => r = StoredRecord(nearest)

\* C15: get_at_before(k) and get_at_after(k) return the record stored with
\* k whenever there is one, at whatever entry index; when there is none
\* they return the nearest stored record below (above) k, with its own key.
C15_AtBeforeAfterPreferExact ==
    (gbf_last # None /\ gbf_last[1].op \in {"get_record_at_before_long", "get_record_at_after_long"}) =>
        LET k == gbf_last[1].key
            r == gbf_last[1].res
            side == IF gbf_last[1].op = "get_record_at_before_long" THEN GbfBelow(k)
                    ELSE GbfAbove(k)
            nearest == IF gbf_last[1].op = "get_record_at_before_long" THEN SetMax(side)
                       ELSE SetMin(side)
        IN /\ k \in GbfStored => r = StoredRecord(k)
           /\ (k \notin GbfStored /\ side # {}) => r = StoredRecord(nearest)

\* C16: the iteration that starts at the smallest possible key ends with
\* None after it has yielded every stored record once, in ascending key
\* order: as many records as the leaves' entry counts add up to.
C16_IterationVisitsAll ==
    (gbf_iter # None /\ gbf_iter[1].done /\ gbf_iter[1].start = GbfMinKey) =>
        /\ gbf_iter[1].end.kind = "None"
        /\ gbf_yielded = [i \in 1 .. Cardinality(GbfStored) |->
                             StoredRecord(SortedSeq(GbfStored)[i])]

\* C17: a neighbour lookup whose answer would lie before the first or after
\* the last record of the table returns None, not a record and not an error.
C17_OffTheEndIsNone ==
    (gbf_last # None /\ gbf_last[1].op # "get_record_at_long") =>
        LET k == gbf_last[1].key
            op == gbf_last[1].op
            off == \/ op = "get_record_before_long" /\ GbfBelow(k) = {}
                   \/ op = "get_record_at_before_long" /\ GbfBelow(k) = {} /\ k \notin GbfStored
                   \/ op = "get_record_after_long" /\ GbfAbove(k) = {}
                   \/ op = "get_record_at_after_long" /\ GbfAbove(k) = {} /\ k \notin GbfStored
        IN off => gbf_last[1].res.kind = "None"

\* C18: the descent through an interior node reaches a leaf for every query
\* key, and for a query key that is one of the interior keys it is the
\* child of that key's slot.
C18_DescentReachesLeaf ==
    (gbf_last # None /\ gbf_tree[1].root = "LONGKEY_INTERIOR") =>
        LET k == gbf_last[1].key
            entries == gbf_tree[1].interior
        IN /\ gbf_last[1].leaf.kind = "Ok"
           /\ \A i \in 1 .. Len(entries) :
                 entries[i].key = k => gbf_last[1].leaf.nid = entries[i].value

----------------------------------------------------------------------------
(* Properties of the catalog specification.                                *)

\* row i breaks the order: an index row with no base row of its name before
\* it, or a base row with a base row of its name before it
RowOutOfOrder(rows, i) ==
    LET base_before == \E j \in 1 .. (i - 1) :
                          rows[j].name = rows[i].name /\ rows[j].indexing_column = 0 - 1
    IN (rows[i].indexing_column = 0 - 1) = base_before

\* C19: a master table with a row out of order makes opening fail with
\* Generic("base table was not first").
C19_BaseTableFirst ==
    tbl_result # None =>
        ((\E i \in 1 .. Len(tbl_master[1].rows) : RowOutOfOrder(tbl_master[1].rows, i))
            => /\ tbl_result[1].kind = "Generic"
               /\ tbl_result[1].msg = "base table was not first")

----------------------------------------------------------------------------
(* Properties of the disassembler context specification.                   *)

\* C20: entering a constructor frame rewrites, for each context op, the
\* word at its word-start to (that word & ~mask) | (value << bit-shift),
\* whatever the word-start; the pattern tests that follow in the same
\* instruction read the rewritten context.
C20_ContextRewritten ==
    dis_frames > 0 =>
        /\ dis_status # "panicked"
        /\ dis_ctx = dis_expect
        /\ dis_seen # None => dis_seen[1].data = dis_expect[dis_seen[1].word + 1]

----------------------------------------------------------------------------
(* Properties of the constructor resolution specification.                 *)

\* the pattern of the NOP constructor: the first opcode byte is 0x90
NopPattern ==
    [pat_type |-> "InstructionPattern",
     pat_blocks |-> <<[offset |-> 0, mask |-> <<255, 0, 0, 0>>, value |-> <<144, 0, 0, 0>>]>>]

\* C21: on a memory that holds only the byte 0x90 at address 0, resolution
\* at address 0 finds the NOP constructor (text "NOP", one Mnemonic run,
\* length 1); it does not fail because fewer than four bytes are readable.
C21_SingleByteNop ==
    (/\ rs_result # None
     /\ rs_input[1].mem = <<144>>
     /\ rs_input[1].at = 0
     /\ rs_input[1].decision.size = 0
     /\ Len(rs_input[1].decision.pairs) > 0
     /\ rs_input[1].decision.pairs[1].pattern = NopPattern)
        => rs_result[1] = [kind |-> "Ok", ctor_id |-> rs_input[1].decision.pairs[1].ctor_id]

\* the leaf a resolution reached, and the pairs of it that match
RsLeaf ==
    decision_leaf(rs_input[1].decision, read_mem_u32_at(rs_input[1].mem, rs_input[1].at).word)
RsMatching ==
    {i \in 1 .. Len(RsLeaf.pairs) :
        is_match(RsLeaf.pairs[i].pattern, rs_input[1].mem, rs_input[1].ctx, rs_input[1].at)}

\* C22: at the leaf the pairs are tried in stored order: the result is the
\* constructor of the first pair that matches, and the pattern-not-found
\* error when none does.
C22_FirstMatchWins ==
    (rs_result # None /\ rs_result[1].kind # "<invalid read>") =>
        IF RsMatching = {}
        THEN rs_result[1].kind = "<pattern not found>"
        ELSE /\ rs_result[1].kind = "Ok"
             /\ rs_result[1].ctor_id = RsLeaf.pairs[SetMin(RsMatching)].ctor_id

\* two overlapping patterns both match and the earlier pair's constructor
\* is the result
C22_Witness ==
    /\ rs_result # None
    /\ rs_result[1].kind = "Ok"
    /\ Cardinality(RsMatching) = 2
    /\ RsLeaf.pairs[1].pattern # RsLeaf.pairs[2].pattern
    /\ rs_result[1].ctor_id = RsLeaf.pairs[1].ctor_id

----------------------------------------------------------------------------
(* Properties of the word-at-a-time memory write specification.            *)

\* C23: a write through the PEEKDATA / POKEDATA fallback completes for
\* every length of at least 1, leaves [addr, addr + len) equal to value,
\* and leaves every byte outside that range as it was.
C23_WordWriteExact ==
    pt_last # None =>
        LET w == pt_last[1]
        IN /\ w.status = "Ok"
           /\ \A a \in PtAddrs :
                pt_mem[a] = IF a >= w.addr /\ a < w.addr + Len(w.value)
                            THEN w.value[a - w.addr + 1]
                            ELSE w.before[a]

====
